---------------------------- MODULE Spec2Model ----------------------------
(***************************************************************************)
(* Landmark-to-overlay geometry of the jewelry try-on repository:          *)
(*   - the client hook useMediaPipeLandmarks (processImage and the         *)
(*     extraction helpers of src/hooks/use-mediapipe-landmarks.ts),        *)
(*   - the scale step of VirtualTryOnService (src/lib/virtual-tryon.ts     *)
(*     and the calculateScaling variant of src/unnamed/part_001),          *)
(*   - the polygon inflation expandPolygon.                                *)
(*                                                                         *)
(* JavaScript numbers are modelled as exact rationals n/d together with    *)
(* the special values NaN, +Infinity/-Infinity and null (what JSON makes   *)
(* of a non-finite number); Math.sqrt is modelled at a fixed resolution.   *)
(***************************************************************************)
EXTENDS Integers, Sequences, FiniteSets, TLC

(***************************************************************************)
(* JavaScript Number                                                       *)
(***************************************************************************)
IAbs(i) == IF i < 0 THEN -i ELSE i

RECURSIVE GCD(_, _)
GCD(a, b) == IF b = 0 THEN a ELSE GCD(b, a % b)

\* the rational n/d in lowest terms with a positive denominator (d # 0)
R(n, d) ==
    LET g == GCD(IAbs(n), IAbs(d))
        s == IF d < 0 THEN -1 ELSE 1
    IN  [k |-> "num", n |-> (s * n) \div g, d |-> IAbs(d) \div g]

Int2Num(i) == [k |-> "num", n |-> i, d |-> 1]
NaN == [k |-> "nan", n |-> 0, d |-> 1]
Infinity(s) == [k |-> "inf", n |-> s, d |-> 1]
Null == [k |-> "null", n |-> 0, d |-> 1]

\* ToNumber: null coerces to 0 in arithmetic
ToNumber(v) == IF v.k = "null" THEN Int2Num(0) ELSE v

Sgn(i) == IF i < 0 THEN -1 ELSE IF i > 0 THEN 1 ELSE 0

IsFinite(v) == v.k = "num"

Neg(a0) ==
    LET a == ToNumber(a0)
    IN  IF a.k = "nan" THEN NaN ELSE [a EXCEPT !.n = -a.n]

Add(a0, b0) ==
    LET a == ToNumber(a0)
        b == ToNumber(b0)
    IN  IF a.k = "nan" \/ b.k = "nan" THEN NaN
        ELSE IF a.k = "inf" /\ b.k = "inf"
             THEN (IF a.n = b.n THEN a ELSE NaN)
        ELSE IF a.k = "inf" THEN a
        ELSE IF b.k = "inf" THEN b
        ELSE R(a.n * b.d + b.n * a.d, a.d * b.d)

Sub(a, b) == Add(a, Neg(b))

Mul(a0, b0) ==
    LET a == ToNumber(a0)
        b == ToNumber(b0)
    IN  IF a.k = "nan" \/ b.k = "nan" THEN NaN
        ELSE IF a.k = "inf" \/ b.k = "inf"
             THEN (IF a.n = 0 \/ b.n = 0 THEN NaN
                   ELSE Infinity(Sgn(a.n) * Sgn(b.n)))
        ELSE R(a.n * b.n, a.d * b.d)

Div(a0, b0) ==
    LET a == ToNumber(a0)
        b == ToNumber(b0)
    IN  IF a.k = "nan" \/ b.k = "nan" THEN NaN
        ELSE IF a.k = "inf"
             THEN (IF b.k = "inf" THEN NaN
                   ELSE Infinity(a.n * (IF b.n < 0 THEN -1 ELSE 1)))
        ELSE IF b.k = "inf" THEN Int2Num(0)
        ELSE IF b.n = 0
             THEN (IF a.n = 0 THEN NaN ELSE Infinity(Sgn(a.n)))
        ELSE R(a.n * b.d, a.d * b.n)

\* a < b, false as soon as one side is NaN
Lt(a0, b0) ==
    LET a == ToNumber(a0)
        b == ToNumber(b0)
    IN  IF a.k = "nan" \/ b.k = "nan" THEN FALSE
        ELSE IF a.k = "inf" THEN a.n < 0 /\ ~(b.k = "inf" /\ b.n < 0)
        ELSE IF b.k = "inf" THEN b.n > 0
        ELSE a.n * b.d < b.n * a.d

Gt(a, b) == Lt(b, a)

Le(a0, b0) ==
    LET a == ToNumber(a0)
        b == ToNumber(b0)
    IN  IF a.k = "nan" \/ b.k = "nan" THEN FALSE ELSE ~Lt(b, a)

MathAbs(a0) ==
    LET a == ToNumber(a0)
    IN  IF a.k = "nan" THEN NaN
        ELSE IF a.k = "inf" THEN Infinity(1)
        ELSE [a EXCEPT !.n = IAbs(a.n)]

\* Math.round: the nearest integer, ties towards +Infinity
MathRound(a0) ==
    LET a == ToNumber(a0)
    IN  IF a.k # "num" THEN a
        ELSE Int2Num((2 * a.n + a.d) \div (2 * a.d))

\* Math.min / Math.max over a non-empty sequence: NaN as soon as one is NaN
RECURSIVE MathMin(_)
MathMin(s) ==
    IF Len(s) = 1 THEN ToNumber(s[1])
    ELSE LET h == ToNumber(Head(s))
             t == MathMin(Tail(s))
         IN  IF h.k = "nan" \/ t.k = "nan" THEN NaN
             ELSE IF Lt(t, h) THEN t ELSE h

RECURSIVE MathMax(_)
MathMax(s) ==
    IF Len(s) = 1 THEN ToNumber(s[1])
    ELSE LET h == ToNumber(Head(s))
             t == MathMax(Tail(s))
         IN  IF h.k = "nan" \/ t.k = "nan" THEN NaN
             ELSE IF Lt(h, t) THEN t ELSE h

\* resolution of the square-root model: a root is exact to 1/(d*SqrtScale)
SqrtScale == 100

\* the largest r with r*r <= n, n >= 0, found by bisection on [lo, hi)
RECURSIVE ISqrtIn(_, _, _)
ISqrtIn(n, lo, hi) ==
    IF hi - lo <= 1 THEN lo
    ELSE LET mid == (lo + hi) \div 2
         IN  IF mid * mid <= n THEN ISqrtIn(n, mid, hi) ELSE ISqrtIn(n, lo, mid)

ISqrt(n) == ISqrtIn(n, 0, 46341)

\* Math.sqrt: exact on squares of rationals, otherwise rounded down at the
\* model's resolution; NaN for a negative argument
MathSqrt(a0) ==
    LET a == ToNumber(a0)
    IN  IF a.k = "nan" THEN NaN
        ELSE IF a.k = "inf" THEN (IF a.n > 0 THEN a ELSE NaN)
        ELSE IF a.n < 0 THEN NaN
        ELSE LET rn == ISqrt(a.n)
                 rd == ISqrt(a.d)
             IN  IF rn * rn = a.n /\ rd * rd = a.d THEN R(rn, rd)
                 ELSE R(ISqrt(a.n * a.d * SqrtScale * SqrtScale), a.d * SqrtScale)

(***************************************************************************)
(* Program constants                                                       *)
(***************************************************************************)
JewelryTypes == {"earrings", "necklace", "ring", "bracelet"}

\* REFERENCE_SIZES_MM of src/lib/virtual-tryon.ts
REFERENCE_SIZES_MM ==
    [earrings |-> 20, necklace |-> 50, ring |-> 15, bracelet |-> 50]

\* REFERENCE_SIZES_MM of src/hooks/use-mediapipe-landmarks.ts
REFERENCE_SIZES_MM_HOOK ==
    [earrings |-> 15, necklace |-> 120, ring |-> 18, bracelet |-> 55]

\* REFERENCE_SIZES_MM of the calculateScaling variant of the service
REFERENCE_SIZES_MM_V1 ==
    [earrings |-> 15, necklace |-> 120, ring |-> 18, bracelet |-> 55]

\* numHands of the hand landmarker: at most this many hands are detected
NumHands == 2

(***************************************************************************)
(* Landmarks                                                               *)
(***************************************************************************)
\* landmarks[i] of an index the detector did not produce
Undefined == [def |-> FALSE, x |-> NaN, y |-> NaN]

Landmark(x, y) == [def |-> TRUE, x |-> x, y |-> y]

\* the face-mesh and hand-skeleton indices the extraction reads
FaceIdx == {132, 135, 165, 150, 205, 425, 152}
HandIdx == {0, 5, 6, 9, 10, 13, 14, 17}

Pt(x, y) == [x |-> x, y |-> y]

NullLandmarks == [tag |-> "null"]

(***************************************************************************)
(* createRegionFromPoints: the bounding box of the points, scaled about    *)
(* its center by paddingFactor                                             *)
(***************************************************************************)
\* mutant: the padding added to the box instead of multiplying it
createRegionAdditive(points, paddingFactor) ==
    LET xs == [i \in 1..Len(points) |-> points[i].x]
        ys == [i \in 1..Len(points) |-> points[i].y]
        minX == MathMin(xs)
        minY == MathMin(ys)
        width == Add(Sub(MathMax(xs), minX), paddingFactor)
        height == Add(Sub(MathMax(ys), minY), paddingFactor)
    IN  [points |-> << Pt(minX, minY), Pt(Add(minX, width), minY),
                       Pt(Add(minX, width), Add(minY, height)),
                       Pt(minX, Add(minY, height)) >>,
         width |-> MathRound(width), height |-> MathRound(height),
         minX |-> MathRound(minX), minY |-> MathRound(minY)]

\* mutant: the box scaled from its top-left corner instead of its center
createRegionFromCorner(points, paddingFactor) ==
    LET xs == [i \in 1..Len(points) |-> points[i].x]
        ys == [i \in 1..Len(points) |-> points[i].y]
        minX == MathMin(xs)
        minY == MathMin(ys)
        width == Mul(Sub(MathMax(xs), minX), paddingFactor)
        height == Mul(Sub(MathMax(ys), minY), paddingFactor)
    IN  [points |-> << Pt(minX, minY), Pt(Add(minX, width), minY),
                       Pt(Add(minX, width), Add(minY, height)),
                       Pt(minX, Add(minY, height)) >>,
         width |-> MathRound(width), height |-> MathRound(height),
         minX |-> MathRound(minX), minY |-> MathRound(minY)]

createRegionFromPoints(points, paddingFactor) ==
    LET xs == [i \in 1..Len(points) |-> points[i].x]
        ys == [i \in 1..Len(points) |-> points[i].y]
        minX == MathMin(xs)
        maxX == MathMax(xs)
        minY == MathMin(ys)
        maxY == MathMax(ys)
        width == Mul(Sub(maxX, minX), paddingFactor)
        height == Mul(Sub(maxY, minY), paddingFactor)
        centerX == Div(Add(minX, maxX), Int2Num(2))
        centerY == Div(Add(minY, maxY), Int2Num(2))
        expandedMinX == Sub(centerX, Div(width, Int2Num(2)))
        expandedMinY == Sub(centerY, Div(height, Int2Num(2)))
    IN  [points |-> << Pt(expandedMinX, expandedMinY),
                       Pt(Add(expandedMinX, width), expandedMinY),
                       Pt(Add(expandedMinX, width), Add(expandedMinY, height)),
                       Pt(expandedMinX, Add(expandedMinY, height)) >>,
         width |-> MathRound(width),
         height |-> MathRound(height),
         minX |-> MathRound(expandedMinX),
         minY |-> MathRound(expandedMinY)]

LandmarkData(position, refWidth, region, imgWidth, imgHeight) ==
    [tag |-> "data", position |-> position, refWidth |-> refWidth,
     region |-> region, imageWidth |-> imgWidth, imageHeight |-> imgHeight]

\* what an extraction call does: returns a LandmarkData, returns null, or
\* throws (a property read on undefined)
Returned(v) == [threw |-> FALSE, value |-> v, message |-> ""]
Thrown(msg) == [threw |-> TRUE, value |-> NullLandmarks, message |-> msg]

TypeErrorMessage == "Cannot read properties of undefined (reading 'x')"

\* normalized landmark to pixel space
ToPixel(l, imgWidth, imgHeight) ==
    Pt(Mul(l.x, Int2Num(imgWidth)), Mul(l.y, Int2Num(imgHeight)))

(***************************************************************************)
(* extractFaceLandmarks                                                    *)
(***************************************************************************)
EarIndices == <<132, 135, 165, 150>>

\* mutant: the raw landmark span, without the factor 1.2
ExtractEarringsRawSpan(landmarks, imgWidth, imgHeight) ==
    LET earLandmarks == [i \in 1..4 |-> landmarks[EarIndices[i]]]
    IN  IF \E i \in 1..4 : ~earLandmarks[i].def THEN Returned(NullLandmarks)
        ELSE
        LET pixelLandmarks ==
                [i \in 1..4 |-> ToPixel(earLandmarks[i], imgWidth, imgHeight)]
            refWidth == MathAbs(Sub(pixelLandmarks[1].x, pixelLandmarks[3].x))
            position ==
                Pt(Div(Add(pixelLandmarks[1].x, pixelLandmarks[3].x), Int2Num(2)),
                   Div(Add(pixelLandmarks[1].y, pixelLandmarks[3].y), Int2Num(2)))
        IN  Returned(LandmarkData(position, refWidth,
                createRegionFromPoints(pixelLandmarks, R(15, 10)),
                imgWidth, imgHeight))

ExtractEarrings(landmarks, imgWidth, imgHeight) ==
    LET earLandmarks == [i \in 1..4 |-> landmarks[EarIndices[i]]]
    IN  IF \E i \in 1..4 : ~earLandmarks[i].def THEN Returned(NullLandmarks)
        ELSE
        LET pixelLandmarks ==
                [i \in 1..4 |-> ToPixel(earLandmarks[i], imgWidth, imgHeight)]
            refWidth ==
                Mul(MathAbs(Sub(pixelLandmarks[1].x, pixelLandmarks[3].x)), R(12, 10))
            position ==
                Pt(Div(Add(pixelLandmarks[1].x, pixelLandmarks[3].x), Int2Num(2)),
                   Div(Add(pixelLandmarks[1].y, pixelLandmarks[3].y), Int2Num(2)))
        IN  Returned(LandmarkData(position, refWidth,
                createRegionFromPoints(pixelLandmarks, R(15, 10)),
                imgWidth, imgHeight))

\* mutant: the center left on the chin landmark
ExtractNecklaceChinAnchor(landmarks, imgWidth, imgHeight) ==
    IF ~landmarks[205].def \/ ~landmarks[425].def \/ ~landmarks[152].def
    THEN Thrown(TypeErrorMessage)
    ELSE
    LET p1 == ToPixel(landmarks[205], imgWidth, imgHeight)
        p2 == ToPixel(landmarks[425], imgWidth, imgHeight)
        p3 == Pt(Mul(landmarks[152].x, Int2Num(imgWidth)),
                 Mul(Add(landmarks[152].y, R(1, 10)), Int2Num(imgHeight)))
        refWidth == MathAbs(Sub(p1.x, p2.x))
        position == ToPixel(landmarks[152], imgWidth, imgHeight)
    IN  Returned(LandmarkData(position, refWidth,
            createRegionFromPoints(<<p1, p2, p3>>, R(12, 10)),
            imgWidth, imgHeight))

ExtractNecklace(landmarks, imgWidth, imgHeight) ==
    IF ~landmarks[205].def \/ ~landmarks[425].def \/ ~landmarks[152].def
    THEN Thrown(TypeErrorMessage)
    ELSE
    LET p1 == ToPixel(landmarks[205], imgWidth, imgHeight)
        p2 == ToPixel(landmarks[425], imgWidth, imgHeight)
        p3 == Pt(Mul(landmarks[152].x, Int2Num(imgWidth)),
                 Mul(Add(landmarks[152].y, R(1, 10)), Int2Num(imgHeight)))
        refWidth == MathAbs(Sub(p1.x, p2.x))
        position ==
            Pt(Mul(landmarks[152].x, Int2Num(imgWidth)),
               Add(Mul(landmarks[152].y, Int2Num(imgHeight)),
                   Mul(refWidth, R(2, 10))))
    IN  Returned(LandmarkData(position, refWidth,
            createRegionFromPoints(<<p1, p2, p3>>, R(12, 10)),
            imgWidth, imgHeight))

\* mutant: earrings measured from the cheek and chin landmarks when an ear
\* landmark is missing
extractFaceLandmarksFallback(landmarks, type, imgWidth, imgHeight) ==
    IF type = "earrings"
    THEN IF \E i \in 1..4 : ~landmarks[EarIndices[i]].def
         THEN ExtractNecklace(landmarks, imgWidth, imgHeight)
         ELSE ExtractEarrings(landmarks, imgWidth, imgHeight)
    ELSE IF type = "necklace" THEN ExtractNecklace(landmarks, imgWidth, imgHeight)
    ELSE Returned(NullLandmarks)

extractFaceLandmarks(landmarks, type, imgWidth, imgHeight) ==
    IF type = "earrings" THEN ExtractEarrings(landmarks, imgWidth, imgHeight)
    ELSE IF type = "necklace" THEN ExtractNecklace(landmarks, imgWidth, imgHeight)
    ELSE Returned(NullLandmarks)

(***************************************************************************)
(* extractHandLandmarks                                                    *)
(***************************************************************************)
\* ring finger, middle finger, index finger: (MCP, PIP)
fingerOptions ==
    << [base |-> 13, mid |-> 14], [base |-> 9, mid |-> 10], [base |-> 5, mid |-> 6] >>

\* mutant: the ring centered on the base joint
RingFromFingerBaseAnchor(landmarks, finger, imgWidth, imgHeight) ==
    LET pBase == ToPixel(landmarks[finger.base], imgWidth, imgHeight)
        pMid == ToPixel(landmarks[finger.mid], imgWidth, imgHeight)
        refWidth == Mul(MathAbs(Sub(pBase.x, pMid.x)), R(25, 10))
        position == Pt(pBase.x, pBase.y)
    IN  LandmarkData(position, refWidth,
            createRegionFromPoints(<<pBase, pMid>>, Int2Num(3)),
            imgWidth, imgHeight)

\* the body of the loop for an accepted finger
RingFromFinger(landmarks, finger, imgWidth, imgHeight) ==
    LET pBase == ToPixel(landmarks[finger.base], imgWidth, imgHeight)
        pMid == ToPixel(landmarks[finger.mid], imgWidth, imgHeight)
        refWidth == Mul(MathAbs(Sub(pBase.x, pMid.x)), R(25, 10))
        position == Pt(Div(Add(pBase.x, pMid.x), Int2Num(2)),
                       Div(Add(pBase.y, pMid.y), Int2Num(2)))
    IN  LandmarkData(position, refWidth,
            createRegionFromPoints(<<pBase, pMid>>, Int2Num(3)),
            imgWidth, imgHeight)

\* the loop's test of one finger: both landmarks are truthy
FingerAccepted(landmarks, finger) ==
    landmarks[finger.base].def /\ landmarks[finger.mid].def

RECURSIVE RingLoop(_, _, _, _)
RingLoop(landmarks, i, imgWidth, imgHeight) ==
    IF i > Len(fingerOptions) THEN NullLandmarks
    ELSE IF FingerAccepted(landmarks, fingerOptions[i])
         THEN RingFromFinger(landmarks, fingerOptions[i], imgWidth, imgHeight)
         ELSE RingLoop(landmarks, i + 1, imgWidth, imgHeight)

\* mutant: the bracelet centered between the index and pinky MCP
ExtractBraceletMidpoint(landmarks, imgWidth, imgHeight) ==
    LET wrist1 == landmarks[0]
        wrist2 == landmarks[5]
        wrist3 == landmarks[17]
    IN  IF ~wrist1.def \/ ~wrist2.def \/ ~wrist3.def THEN NullLandmarks
        ELSE
        LET p1 == ToPixel(wrist1, imgWidth, imgHeight)
            p2 == ToPixel(wrist2, imgWidth, imgHeight)
            p3 == ToPixel(wrist3, imgWidth, imgHeight)
            refWidth == MathAbs(Sub(p2.x, p3.x))
            position == Pt(Div(Add(p2.x, p3.x), Int2Num(2)),
                           Div(Add(p2.y, p3.y), Int2Num(2)))
        IN  LandmarkData(position, refWidth,
                createRegionFromPoints(
                    << p2, p3,
                       Pt(p3.x, Add(p3.y, Mul(refWidth, R(5, 10)))),
                       Pt(p2.x, Add(p2.y, Mul(refWidth, R(5, 10)))) >>,
                    R(12, 10)),
                imgWidth, imgHeight)

ExtractBracelet(landmarks, imgWidth, imgHeight) ==
    LET wrist1 == landmarks[0]
        wrist2 == landmarks[5]
        wrist3 == landmarks[17]
    IN  IF ~wrist1.def \/ ~wrist2.def \/ ~wrist3.def THEN NullLandmarks
        ELSE
        LET p1 == ToPixel(wrist1, imgWidth, imgHeight)
            p2 == ToPixel(wrist2, imgWidth, imgHeight)
            p3 == ToPixel(wrist3, imgWidth, imgHeight)
            refWidth == MathAbs(Sub(p2.x, p3.x))
            position == Pt(p1.x, p1.y)
        IN  LandmarkData(position, refWidth,
                createRegionFromPoints(
                    << p2, p3,
                       Pt(p3.x, Add(p3.y, Mul(refWidth, R(5, 10)))),
                       Pt(p2.x, Add(p2.y, Mul(refWidth, R(5, 10)))) >>,
                    R(12, 10)),
                imgWidth, imgHeight)

extractHandLandmarks(landmarks, type, imgWidth, imgHeight) ==
    IF type = "ring" THEN RingLoop(landmarks, 1, imgWidth, imgHeight)
    ELSE IF type = "bracelet" THEN ExtractBracelet(landmarks, imgWidth, imgHeight)
    ELSE NullLandmarks


(***************************************************************************)
(* Detector outputs the model draws from                                   *)
(***************************************************************************)
\* a landmark with normalized coordinates a/100, b/100
P(a, b) == Landmark(R(a, 100), R(b, 100))

\* frontal face: ear points at (0.15,0.20) and (0.20,0.21), chin at (0.5,0.6)
FaceFrontal ==
    (132 :> P(15, 20)) @@ (135 :> P(16, 22)) @@ (165 :> P(20, 21)) @@
    (150 :> P(18, 23)) @@ (205 :> P(40, 50)) @@ (425 :> P(60, 52)) @@
    (152 :> P(50, 60))

\* face in profile: every landmark on one vertical line
FaceProfile ==
    (132 :> P(50, 20)) @@ (135 :> P(50, 22)) @@ (165 :> P(50, 21)) @@
    (150 :> P(50, 23)) @@ (205 :> P(50, 50)) @@ (425 :> P(50, 52)) @@
    (152 :> P(50, 60))

\* landmarks of each group on one horizontal line
FaceLevel ==
    (132 :> P(15, 20)) @@ (135 :> P(16, 20)) @@ (165 :> P(20, 20)) @@
    (150 :> P(18, 20)) @@ (205 :> P(40, 50)) @@ (425 :> P(60, 50)) @@
    (152 :> P(50, 40))

FaceLayouts == {FaceFrontal, FaceProfile, FaceLevel}

\* open hand, fingers spread
HandOpen ==
    (0 :> P(50, 90)) @@ (5 :> P(40, 60)) @@ (6 :> P(38, 50)) @@
    (9 :> P(50, 58)) @@ (10 :> P(51, 46)) @@ (13 :> P(60, 60)) @@
    (14 :> P(62, 50)) @@ (17 :> P(70, 64))

\* fingers pointing straight up: MCP and PIP of a finger share their x
HandUpright ==
    (0 :> P(50, 90)) @@ (5 :> P(40, 60)) @@ (6 :> P(40, 50)) @@
    (9 :> P(50, 58)) @@ (10 :> P(50, 46)) @@ (13 :> P(60, 60)) @@
    (14 :> P(60, 50)) @@ (17 :> P(70, 64))

\* fingers pointing sideways: MCP and PIP of a finger share their y
HandSideways ==
    (0 :> P(90, 50)) @@ (5 :> P(60, 40)) @@ (6 :> P(50, 40)) @@
    (9 :> P(58, 50)) @@ (10 :> P(46, 50)) @@ (13 :> P(60, 60)) @@
    (14 :> P(50, 60)) @@ (17 :> P(64, 70))

\* hand seen edge-on: every landmark on one vertical line
HandEdgeOn ==
    (0 :> P(50, 90)) @@ (5 :> P(50, 60)) @@ (6 :> P(50, 50)) @@
    (9 :> P(50, 58)) @@ (10 :> P(50, 46)) @@ (13 :> P(50, 60)) @@
    (14 :> P(50, 50)) @@ (17 :> P(50, 64))

HandLayouts == {HandOpen, HandUpright, HandSideways, HandEdgeOn}

\* what the detector made of one landmark: a finite point, a point with NaN
\* coordinates, or no entry
Detected == {"ok", "nan", "undef"}

Masked(l, m) ==
    IF m = "ok" THEN l
    ELSE IF m = "nan" THEN Landmark(NaN, NaN)
    ELSE Undefined

\* the indices extraction reads for a jewelry type
ReadIdx(type) ==
    IF type = "earrings" THEN {132, 135, 165, 150}
    ELSE IF type = "necklace" THEN {205, 425, 152}
    ELSE IF type = "ring" THEN {13, 14, 9, 10, 5, 6}
    ELSE {0, 5, 17}

\* landmark arrays: a layout with each read landmark finite, NaN or missing
Samples(layouts, type) ==
    { [i \in DOMAIN lay |-> IF i \in ReadIdx(type) THEN Masked(lay[i], m[i]) ELSE lay[i]] :
        lay \in layouts, m \in [ReadIdx(type) -> Detected] }

\* landmark arrays whose read landmarks are all finite, all NaN or all missing
CoarseSamples(layouts, type) ==
    { [i \in DOMAIN lay |-> IF i \in ReadIdx(type) THEN Masked(lay[i], m) ELSE lay[i]] :
        lay \in layouts, m \in Detected }

\* image sizes: widths ImgUnit, 2*ImgUnit, ... and the height ImgHeight
ImgUnit == 500
ImgHeight == 1000
MaxImgK == 2
ImageSizes == { <<ImgUnit * k, ImgHeight>> : k \in 1..MaxImgK }

\* results of faceLandmarker.detect: at most one face (numFaces: 1)
FaceDetections(type) ==
    {<< >>} \cup { <<f>> : f \in Samples(FaceLayouts, type) }

\* results of handLandmarker.detect: up to NumHands hands
HandDetections(type) ==
    {<< >>} \cup { <<h>> : h \in Samples(HandLayouts, type) }
    \cup { hs \in [1..NumHands -> CoarseSamples(HandLayouts, type)] : TRUE }

(***************************************************************************)
(* State                                                                   *)
(***************************************************************************)
VARIABLES
    isInitialized,       \* hook state: MediaPipe is initialized
    isProcessing,        \* hook state: a processImage call is detecting
    error,               \* hook state: last error message, or NoError
    faceLandmarkerRef,   \* the face landmarker exists
    handLandmarkerRef,   \* the hand landmarker exists
    call,                \* the processImage call: its position and inputs
    result,              \* what the last processImage call returned
    request,             \* the TryOnRequest handed to the service
    svc,                 \* the service's scale step for that request
    mask,                \* a call of expandPolygon: its inputs and its result
    tables,              \* the modules' top-level constant tables
    currentLandmarks,    \* VirtualTryOnService.currentLandmarks
    jobs,                \* the requests the service is serving, by request id
    calls,               \* overlapping processImage calls, by call id
    inpaint,             \* a call of the inpainting step
    route                \* the route's answer to a posted body

vars == << isInitialized, isProcessing, error, faceLandmarkerRef,
           handLandmarkerRef, call, result, request, svc, mask,
           tables, currentLandmarks, jobs, calls, inpaint, route >>

\* the state of the parts that are each followed in a specification of
\* their own
partVars == << currentLandmarks, jobs, calls, inpaint, route >>

hookVars == << isInitialized, isProcessing, error, faceLandmarkerRef,
               handLandmarkerRef >>

NoError == "<null>"

\* the tables as the modules' top-level const declarations leave them
InitialTables ==
    [service |-> REFERENCE_SIZES_MM, overlay |-> REFERENCE_SIZES_MM_V1,
     hook |-> REFERENCE_SIZES_MM_HOOK]

\* awaited is how the initializeMediaPipe that the call awaited ended
IdleCall == [pc |-> "idle", jewelryType |-> "none", imgWidth |-> 0,
             imgHeight |-> 0, loaded |-> FALSE, detection |-> << >>,
             awaited |-> "none"]

NoResult == [returned |-> FALSE, landmarks |-> NullLandmarks,
             hasError |-> FALSE, error |-> NoError, confidence |-> Int2Num(0)]

\* { landmarks, confidence }
Success(landmarks, confidence) ==
    [returned |-> TRUE, landmarks |-> landmarks, hasError |-> FALSE,
     error |-> NoError, confidence |-> confidence]

\* { landmarks: null, error, confidence: 0 }
Failure(msg) ==
    [returned |-> TRUE, landmarks |-> NullLandmarks, hasError |-> TRUE,
     error |-> msg, confidence |-> Int2Num(0)]

NoRequest == [method |-> "none"]
NoSvc == [stage |-> "none"]
NoMask == [stage |-> "none", points |-> << >>, padding |-> Int2Num(0),
           expanded |-> << >>]
NoInpaint == [stage |-> "none"]
NoRoute == [stage |-> "none"]

Init ==
    /\ route = NoRoute
    /\ inpaint = NoInpaint
    /\ calls = << >>
    /\ jobs = << >>
    /\ currentLandmarks = NullLandmarks
    /\ tables = InitialTables
    /\ isInitialized = FALSE
    /\ isProcessing = FALSE
    /\ error = NoError
    /\ faceLandmarkerRef = FALSE
    /\ handLandmarkerRef = FALSE
    /\ call = IdleCall
    /\ result = NoResult
    /\ request = NoRequest
    /\ svc = NoSvc
    /\ mask = NoMask

(***************************************************************************)
(* useMediaPipeLandmarks                                                   *)
(***************************************************************************)
InitOutcomes == {"ok", "resolverFails", "faceFails", "handFails"}

\* the body of initializeMediaPipe past its isInitialized test; outcome says
\* which await, if any, rejects
InitializeBody(outcome) ==
    /\ faceLandmarkerRef' = (faceLandmarkerRef \/ outcome \in {"ok", "handFails"})
    /\ handLandmarkerRef' = (handLandmarkerRef \/ outcome = "ok")
    /\ isInitialized' = (outcome = "ok")
    /\ error' = IF outcome = "ok" THEN NoError ELSE "Failed to initialize MediaPipe"

\* initializeMediaPipe called by a component
InitializeMediaPipe(outcome) ==
    /\ ~isInitialized
    /\ call.pc # "loading"
    /\ InitializeBody(outcome)
    /\ UNCHANGED << isProcessing, call, result, request, svc, mask, tables, partVars >>

\* processImage while the callback's isInitialized is false: it awaits
\* initializeMediaPipe and tests the same captured isInitialized again
ProcessImageUninitialized(jewelryType, outcome) ==
    /\ call.pc # "loading"
    /\ ~isInitialized
    /\ InitializeBody(outcome)
    /\ call' = [IdleCall EXCEPT !.pc = "returned", !.jewelryType = jewelryType,
                                !.awaited = outcome]
    /\ result' = Failure("MediaPipe not initialized")
    /\ request' = NoRequest
    /\ svc' = NoSvc
    /\ UNCHANGED << isProcessing, mask, tables, partVars >>

\* processImage up to its await of loadImage; the handler that calls it starts
\* with no request of its own
ProcessImageStart(jewelryType) ==
    /\ call.pc # "loading"
    /\ isInitialized
    /\ isProcessing' = TRUE
    /\ error' = NoError
    /\ call' = [IdleCall EXCEPT !.pc = "loading", !.jewelryType = jewelryType]
    /\ result' = NoResult
    /\ request' = NoRequest
    /\ svc' = NoSvc
    /\ UNCHANGED << isInitialized, faceLandmarkerRef, handLandmarkerRef, mask, tables, partVars >>

NoLandmarksMessage(jewelryType) == "No landmarks detected for jewelry type"

\* the hand loop: the first hand whose extraction is not null
RECURSIVE HandLoop(_, _, _, _, _)
\* mutant: no break, a later hand's extraction replaces an earlier one
PickLater(earlier, later) == IF later.tag # "null" THEN later ELSE earlier

HandLoopBodyLast(landmarks, hands, i, jewelryType, imgWidth, imgHeight) ==
    PickLater(landmarks, HandLoop(hands, i + 1, jewelryType, imgWidth, imgHeight))

\* one pass of the loop body: break on a non-null extraction
HandLoopBody(landmarks, hands, i, jewelryType, imgWidth, imgHeight) ==
    IF landmarks.tag # "null" THEN landmarks
    ELSE HandLoop(hands, i + 1, jewelryType, imgWidth, imgHeight)

HandLoop(hands, i, jewelryType, imgWidth, imgHeight) ==
    IF i > Len(hands) THEN NullLandmarks
    ELSE HandLoopBody(
             extractHandLandmarks(hands[i], jewelryType, imgWidth, imgHeight),
             hands, i, jewelryType, imgWidth, imgHeight)

\* the try block once the image is loaded: a LandmarkData, null, or a throw
Detect(jewelryType, detection, imgWidth, imgHeight) ==
    IF jewelryType \in {"earrings", "necklace"}
    THEN IF ~faceLandmarkerRef THEN Thrown("Face landmarker not initialized")
         ELSE IF Len(detection) > 0
              THEN extractFaceLandmarks(detection[1], jewelryType, imgWidth, imgHeight)
              ELSE Returned(NullLandmarks)
    ELSE IF jewelryType \in {"ring", "bracelet"}
    THEN IF ~handLandmarkerRef THEN Thrown("Hand landmarker not initialized")
         ELSE Returned(HandLoop(detection, 1, jewelryType, imgWidth, imgHeight))
    ELSE Returned(NullLandmarks)

\* mutant: the test of !landmarks before the return is left out
ResultOfDetectUnchecked(d, jewelryType) ==
    IF d.threw THEN Failure(d.message)
    ELSE Success(d.value,
                 IF d.value.tag # "null" THEN R(95, 100) ELSE Int2Num(0))

\* the end of the try block and the catch: what processImage returns once
\* detection returned d or threw
ResultOfDetect(d, jewelryType) ==
    IF d.threw THEN Failure(d.message)
    ELSE IF d.value.tag = "null"
         THEN Failure(NoLandmarksMessage(jewelryType))
         ELSE Success(d.value,
                      IF d.value.tag # "null" THEN R(95, 100) ELSE Int2Num(0))

\* try / catch of processImage: the value it returns
ProcessImageResult(jewelryType, loaded, detection, imgWidth, imgHeight) ==
    IF ~loaded THEN Failure("Failed to process image")
    ELSE ResultOfDetect(Detect(jewelryType, detection, imgWidth, imgHeight),
                        jewelryType)

DetectionsFor(jewelryType) ==
    IF jewelryType \in {"earrings", "necklace"}
    THEN FaceDetections(jewelryType)
    ELSE HandDetections(jewelryType)

\* the return of processImage with value r: catch sets the error, finally
\* clears isProcessing
ProcessImageReturn(r, loaded, size, detection) ==
    /\ result' = r
    /\ error' = IF r.hasError THEN r.error ELSE error
    /\ call' = [call EXCEPT !.pc = "returned", !.imgWidth = size[1],
                            !.imgHeight = size[2], !.loaded = loaded,
                            !.detection = detection]
    /\ isProcessing' = FALSE

\* processImage from the resolution (or rejection) of loadImage to its return
ProcessImageFinish ==
    /\ call.pc = "loading"
    /\ \E loaded \in BOOLEAN, size \in ImageSizes,
          detection \in DetectionsFor(call.jewelryType) :
          /\ loaded \/ detection = << >>
          /\ ProcessImageReturn(
                 ProcessImageResult(call.jewelryType, loaded, detection,
                                    size[1], size[2]),
                 loaded, size, detection)
    /\ UNCHANGED << isInitialized, faceLandmarkerRef, handLandmarkerRef,
                    request, svc, mask, tables, partVars >>

(***************************************************************************)
(* The request: ImagePreprocessor posts the landmarks as JSON               *)
(***************************************************************************)
\* JSON.stringify then parse of a number: NaN and the infinities become null
JsonNumber(v) == IF v.k = "num" THEN v ELSE Null

JsonPoint(p) == Pt(JsonNumber(p.x), JsonNumber(p.y))

JsonLandmarks(l) ==
    [tag |-> "data",
     position |-> JsonPoint(l.position),
     refWidth |-> JsonNumber(l.refWidth),
     region |-> [points |-> [i \in 1..Len(l.region.points) |->
                                JsonPoint(l.region.points[i])],
                 width |-> JsonNumber(l.region.width),
                 height |-> JsonNumber(l.region.height),
                 minX |-> JsonNumber(l.region.minX),
                 minY |-> JsonNumber(l.region.minY)],
     imageWidth |-> l.imageWidth,
     imageHeight |-> l.imageHeight]

\* accessory sizes in mm the model draws from: MmUnit * k
MmUnit == 15
MaxMmK == 2
Widths == { MmUnit * k : k \in (-1)..MaxMmK }
Heights == { MmUnit * k : k \in 0..MaxMmK }

\* the TryOnRequest of ImagePreprocessor's handler
TryOnRequest(landmarks, jewelryType, width, height) ==
    [method |-> "upload", hasModelImage |-> TRUE, hasLandmarks |-> TRUE,
     hasModelPrompt |-> TRUE, landmarks |-> JsonLandmarks(landmarks),
     jewelryMetadata |-> [type |-> jewelryType, width |-> Int2Num(width),
                          height |-> Int2Num(height)]]

\* mutant: 'both' validated as a prompt request
RouteValidationLenient(body) ==
    IF body.method = "upload"
    THEN (IF ~body.hasModelImage \/ ~body.hasLandmarks THEN 400 ELSE 0)
    ELSE IF body.method \in {"prompt", "both"}
    THEN (IF ~body.hasModelPrompt THEN 400 ELSE 0)
    ELSE 400

\* the validation of the route's POST: the status it answers with, 0 when it
\* goes on to the service
RouteValidation(body) ==
    IF body.method \in {"upload", "both"}
    THEN (IF ~body.hasModelImage \/ ~body.hasLandmarks THEN 400 ELSE 0)
    ELSE IF body.method = "prompt"
    THEN (IF ~body.hasModelPrompt THEN 400 ELSE 0)
    ELSE 400

(***************************************************************************)
(* VirtualTryOnService: the scale step                                     *)
(***************************************************************************)
getReferenceSizeMm(jewelryType) == Int2Num(tables.service[jewelryType])

getReference(landmarks) ==
    [refPx |-> landmarks.refWidth,
     x |-> MathRound(landmarks.position.x),
     y |-> MathRound(landmarks.position.y)]

\* mutant: the ratio taken upside down
ScaleOfInverted(jewelryMetadata) ==
    Div(getReferenceSizeMm(jewelryMetadata.type), jewelryMetadata.width)

\* STEP 2 of processVirtualTryOn
ScaleOf(jewelryMetadata) ==
    Div(jewelryMetadata.width, getReferenceSizeMm(jewelryMetadata.type))

TargetPx(refPx, scale) == MathRound(Mul(refPx, scale))

\* processVirtualTryOn up to the resize of the jewelry image
ProcessVirtualTryOnScale(req) ==
    IF req.method = "prompt" THEN [stage |-> "prompt", variant |-> "main"]
    ELSE IF ~req.hasModelImage \/ ~req.hasLandmarks
    THEN [stage |-> "threw", variant |-> "main"]
    ELSE LET ref == getReference(req.landmarks)
             scale == ScaleOf(req.jewelryMetadata)
             targetPx == TargetPx(ref.refPx, scale)
         IN  [stage |-> "resize", variant |-> "main", refPx |-> ref.refPx,
              x |-> ref.x, y |-> ref.y, scale |-> scale, targetPx |-> targetPx,
              resizeWidth |-> targetPx]

\* mutant: the height taken from the inverse of the accessory's ratio
calculateScalingInverseRatio(landmarks, metadata) ==
    LET tableMm == Int2Num(tables.overlay[metadata.type])
        referenceMmWidth == IF tableMm.n # 0 THEN tableMm ELSE metadata.width
        scaleFactor == Div(metadata.width, referenceMmWidth)
        targetPixelWidth == Mul(landmarks.refWidth, scaleFactor)
        targetPixelHeight ==
            Mul(targetPixelWidth, Div(metadata.width, metadata.height))
        targetDims == [width |-> MathRound(targetPixelWidth),
                       height |-> MathRound(targetPixelHeight)]
        position ==
            Pt(MathRound(Sub(landmarks.position.x, Div(targetDims.width, Int2Num(2)))),
               MathRound(Sub(landmarks.position.y, Div(targetDims.height, Int2Num(2)))))
    IN  [targetPixelWidth |-> targetPixelWidth,
         targetPixelHeight |-> targetPixelHeight,
         targetDims |-> targetDims, position |-> position]

\* calculateScaling of the service variant that overlays with sharp
calculateScaling(landmarks, metadata) ==
    LET tableMm == Int2Num(tables.overlay[metadata.type])
        referenceMmWidth == IF tableMm.n # 0 THEN tableMm ELSE metadata.width
        scaleFactor == Div(metadata.width, referenceMmWidth)
        targetPixelWidth == Mul(landmarks.refWidth, scaleFactor)
        targetPixelHeight ==
            Mul(targetPixelWidth, Div(metadata.height, metadata.width))
        targetDims == [width |-> MathRound(targetPixelWidth),
                       height |-> MathRound(targetPixelHeight)]
        position ==
            Pt(MathRound(Sub(landmarks.position.x, Div(targetDims.width, Int2Num(2)))),
               MathRound(Sub(landmarks.position.y, Div(targetDims.height, Int2Num(2)))))
    IN  [targetPixelWidth |-> targetPixelWidth,
         targetPixelHeight |-> targetPixelHeight,
         targetDims |-> targetDims, position |-> position]

\* that variant's processVirtualTryOn up to the resize of the jewelry image
ProcessVirtualTryOnV1Scale(req) ==
    IF req.method = "prompt" THEN [stage |-> "threw", variant |-> "v1"]
    ELSE IF ~req.hasModelImage \/ ~req.hasLandmarks
    THEN [stage |-> "threw", variant |-> "v1"]
    ELSE LET c == calculateScaling(req.landmarks, req.jewelryMetadata)
         IN  [stage |-> "resize", variant |-> "v1",
              targetPixelWidth |-> c.targetPixelWidth,
              targetPixelHeight |-> c.targetPixelHeight,
              targetDims |-> c.targetDims, position |-> c.position,
              resizeWidth |-> c.targetDims.width,
              resizeHeight |-> c.targetDims.height]

Variants == {"main", "v1"}

\* the route's POST for body req: validation, then the service
RoutePost(req, variant) ==
    IF RouteValidation(req) # 0 THEN [stage |-> "badRequest", variant |-> variant]
    ELSE IF variant = "main" THEN ProcessVirtualTryOnScale(req)
    ELSE ProcessVirtualTryOnV1Scale(req)

\* mutant: the service recalibrates its table from the accessory it serves
PostRequestCalibrating(req, variant) ==
    /\ request' = req
    /\ svc' = RoutePost(req, variant)
    /\ tables' = [tables EXCEPT !.service[req.jewelryMetadata.type] = @ + 1]

\* the handler posts req; nothing on the way assigns to a table
PostRequest(req, variant) ==
    /\ request' = req
    /\ svc' = RoutePost(req, variant)
    /\ tables' = tables

\* ImagePreprocessor's handler after a successful processImage: it posts the
\* request, the route validates it and calls the service
TryOn(width, height, variant) ==
    /\ call.pc = "returned"
    /\ result.landmarks.tag = "data"
    /\ PostRequest(TryOnRequest(result.landmarks, call.jewelryType, width, height),
                   variant)
    /\ call' = IdleCall
    /\ UNCHANGED << hookVars, result, mask, partVars >>

(***************************************************************************)
(* expandPolygon                                                           *)
(***************************************************************************)
RECURSIVE SumX(_, _)
SumX(points, i) ==
    IF i > Len(points) THEN Int2Num(0) ELSE Add(points[i].x, SumX(points, i + 1))

RECURSIVE SumY(_, _)
SumY(points, i) ==
    IF i > Len(points) THEN Int2Num(0) ELSE Add(points[i].y, SumY(points, i + 1))

\* the reduce and the two divisions
Centroid(points) ==
    Pt(Div(SumX(points, 1), Int2Num(Len(points))),
       Div(SumY(points, 1), Int2Num(Len(points))))

Distance(dx, dy) == MathSqrt(Add(Mul(dx, dx), Mul(dy, dy)))

\* mutant: the padding taken as a fraction of the distance
ExpandPointPercent(p, centroid, padding) ==
    Pt(MathRound(Add(centroid.x, Mul(Sub(p.x, centroid.x), Add(Int2Num(1), padding)))),
       MathRound(Add(centroid.y, Mul(Sub(p.y, centroid.y), Add(Int2Num(1), padding)))))

\* the callback of points.map
ExpandPoint(p, centroid, padding) ==
    Pt(MathRound(Add(centroid.x,
           Mul(Sub(p.x, centroid.x),
               Div(Add(Distance(Sub(p.x, centroid.x), Sub(p.y, centroid.y)), padding),
                   Distance(Sub(p.x, centroid.x), Sub(p.y, centroid.y)))))),
       MathRound(Add(centroid.y,
           Mul(Sub(p.y, centroid.y),
               Div(Add(Distance(Sub(p.x, centroid.x), Sub(p.y, centroid.y)), padding),
                   Distance(Sub(p.x, centroid.x), Sub(p.y, centroid.y)))))))

expandPolygon(points, padding) ==
    [i \in 1..Len(points) |-> ExpandPoint(points[i], Centroid(points), padding)]

\* polygons and paddings the model draws from: triangles with coordinates
\* k/2, k in 0..MaxCoord, and paddings 0..MaxPad
MaxCoord == 2
MaxPad == 2
GridPoints == { Pt(R(a, 2), R(b, 2)) : a \in 0..MaxCoord, b \in 0..MaxCoord }
Polygons == [1..3 -> GridPoints]
Paddings == { Int2Num(k) : k \in 0..MaxPad }

\* a call expandPolygon(points, padding)
ExpandPolygonCall ==
    /\ mask.stage = "input"
    /\ mask' = [mask EXCEPT !.stage = "expanded",
                            !.expanded = expandPolygon(mask.points, mask.padding)]
    /\ UNCHANGED << hookVars, call, result, request, svc, tables, partVars >>

InitPoly ==
    /\ route = NoRoute
    /\ inpaint = NoInpaint
    /\ calls = << >>
    /\ jobs = << >>
    /\ currentLandmarks = NullLandmarks
    /\ tables = InitialTables
    /\ isInitialized = FALSE
    /\ isProcessing = FALSE
    /\ error = NoError
    /\ faceLandmarkerRef = FALSE
    /\ handLandmarkerRef = FALSE
    /\ call = IdleCall
    /\ result = NoResult
    /\ request = NoRequest
    /\ svc = NoSvc
    /\ \E points \in Polygons, padding \in Paddings :
          mask = [stage |-> "input", points |-> points, padding |-> padding,
                  expanded |-> << >>]

NextPoly == ExpandPolygonCall

\* expandPolygon applied to every polygon and padding of the bounds
SpecPoly == InitPoly /\ [][NextPoly]_vars

(***************************************************************************)
(* VirtualTryOnService.generateRealisticMask: the adaptive padding, the    *)
(* inflated region and the feathering gradient of the mask                 *)
(***************************************************************************)
\* categories a caller can pass: the four of the type and any other string
MaskTypes == JewelryTypes \cup {"unknown"}

basePadding ==
    [necklace |-> Int2Num(12), earrings |-> Int2Num(8), ring |-> Int2Num(6),
     bracelet |-> Int2Num(10)]

\* mutant: the padding narrowed, not widened, by complexity
getAdaptivePaddingNarrowing(jewelryType, imageAnalysis) ==
    MathMax(<< Int2Num(4),
               Add(Add(Add(IF jewelryType \in DOMAIN basePadding
                           THEN basePadding[jewelryType] ELSE Int2Num(8),
                           IF imageAnalysis.quality = "high"
                           THEN Int2Num(2) ELSE Int2Num(0)),
                       IF Gt(imageAnalysis.complexity, R(1, 2))
                       THEN Int2Num(-3) ELSE Int2Num(0)),
                   IF imageAnalysis.quality = "low"
                   THEN Int2Num(-2) ELSE Int2Num(0)) >>)

\* padding += 2 for high quality, += 3 for complexity > 0.5, -= 2 for low
\* quality, never below 4
getAdaptivePadding(jewelryType, imageAnalysis) ==
    MathMax(<< Int2Num(4),
               Add(Add(Add(IF jewelryType \in DOMAIN basePadding
                           THEN basePadding[jewelryType] ELSE Int2Num(8),
                           IF imageAnalysis.quality = "high"
                           THEN Int2Num(2) ELSE Int2Num(0)),
                       IF Gt(imageAnalysis.complexity, R(1, 2))
                       THEN Int2Num(3) ELSE Int2Num(0)),
                   IF imageAnalysis.quality = "low"
                   THEN Int2Num(-2) ELSE Int2Num(0)) >>)

gradientTypes ==
    [necklace |-> [radius |-> Int2Num(45), innerStop |-> Int2Num(60),
                   midStop |-> Int2Num(80), midOpacity |-> R(9, 10),
                   outerOpacity |-> R(7, 10), blur |-> Int2Num(2)],
     earrings |-> [radius |-> Int2Num(35), innerStop |-> Int2Num(50),
                   midStop |-> Int2Num(75), midOpacity |-> R(95, 100),
                   outerOpacity |-> R(8, 10), blur |-> R(3, 2)],
     ring     |-> [radius |-> Int2Num(30), innerStop |-> Int2Num(40),
                   midStop |-> Int2Num(70), midOpacity |-> R(9, 10),
                   outerOpacity |-> R(75, 100), blur |-> Int2Num(1)],
     bracelet |-> [radius |-> Int2Num(40), innerStop |-> Int2Num(55),
                   midStop |-> Int2Num(78), midOpacity |-> R(9, 10),
                   outerOpacity |-> R(75, 100), blur |-> Int2Num(2)]]

\* mutant: the necklace and ring profiles exchanged
getGradientTypeExchanged(jewelryType) ==
    IF jewelryType = "ring" THEN gradientTypes.necklace
    ELSE IF jewelryType = "necklace" THEN gradientTypes.ring
    ELSE IF jewelryType \in DOMAIN gradientTypes
    THEN gradientTypes[jewelryType] ELSE gradientTypes.necklace

getGradientType(jewelryType) ==
    IF jewelryType \in DOMAIN gradientTypes
    THEN gradientTypes[jewelryType] ELSE gradientTypes.necklace

\* mutant: a gradient that fades in towards the edge
GradientStopsFadeIn(gradientType) ==
    << [offset |-> Int2Num(0), opacity |-> gradientType.outerOpacity],
       [offset |-> gradientType.innerStop, opacity |-> gradientType.midOpacity],
       [offset |-> gradientType.midStop, opacity |-> Int2Num(1)],
       [offset |-> Int2Num(100), opacity |-> Int2Num(1)] >>

\* the four <stop> elements of the radial gradient, inner to outer
GradientStops(gradientType) ==
    << [offset |-> Int2Num(0), opacity |-> Int2Num(1)],
       [offset |-> gradientType.innerStop, opacity |-> Int2Num(1)],
       [offset |-> gradientType.midStop, opacity |-> gradientType.midOpacity],
       [offset |-> Int2Num(100), opacity |-> gradientType.outerOpacity] >>

\* the mask description handed to sharp, or the throw on an empty region
MaskOf(points, jewelryType, imageAnalysis, padding, gradientType) ==
    [stage |-> "masked", points |-> points, jewelryType |-> jewelryType,
     imageAnalysis |-> imageAnalysis, padding |-> padding,
     expanded |-> expandPolygon(points, padding),
     gradientType |-> gradientType, stops |-> GradientStops(gradientType)]

generateRealisticMask(points, jewelryType, imageAnalysis) ==
    IF Len(points) = 0
    THEN [stage |-> "threw", points |-> points, jewelryType |-> jewelryType,
          imageAnalysis |-> imageAnalysis]
    ELSE MaskOf(points, jewelryType, imageAnalysis,
                getAdaptivePadding(jewelryType, imageAnalysis),
                getGradientType(jewelryType))

\* regions the model draws from: no points, or the box of (0,0) and
\* (RegionUnit*k, RegionUnit)
RegionUnit == 20
MaxRegionK == 2
MaskRegions ==
    {<< >>} \cup
    { createRegionFromPoints(
          << Pt(Int2Num(0), Int2Num(0)), Pt(Int2Num(RegionUnit * k), Int2Num(RegionUnit)) >>,
          Int2Num(1)).points : k \in 0..MaxRegionK }

\* image analyses: the three qualities and complexities k/4
MaxComplexityK == 3
ImageAnalyses ==
    { [quality |-> q, complexity |-> R(k, 4)] :
        q \in {"low", "medium", "high"}, k \in 0..MaxComplexityK }

\* a call generateRealisticMask(landmarks, width, height, jewelryType,
\* imageAnalysis)
GenerateRealisticMask ==
    /\ mask.stage = "analysed"
    /\ mask' = generateRealisticMask(mask.points, mask.jewelryType,
                                     mask.imageAnalysis)
    /\ UNCHANGED << hookVars, call, result, request, svc, tables, partVars >>

InitMask ==
    /\ route = NoRoute
    /\ inpaint = NoInpaint
    /\ calls = << >>
    /\ jobs = << >>
    /\ currentLandmarks = NullLandmarks
    /\ tables = InitialTables
    /\ isInitialized = FALSE
    /\ isProcessing = FALSE
    /\ error = NoError
    /\ faceLandmarkerRef = FALSE
    /\ handLandmarkerRef = FALSE
    /\ call = IdleCall
    /\ result = NoResult
    /\ request = NoRequest
    /\ svc = NoSvc
    /\ \E points \in MaskRegions, t \in MaskTypes, a \in ImageAnalyses :
          mask = [stage |-> "analysed", points |-> points, jewelryType |-> t,
                  imageAnalysis |-> a]

NextMask == GenerateRealisticMask

\* generateRealisticMask applied to every region, category and analysis of
\* the bounds
SpecMask == InitMask /\ [][NextMask]_vars

(***************************************************************************)
(* VirtualTryOnService.processVirtualTryOn for several requests at once:   *)
(* the one exported instance serves them, each call suspended at its awaits *)
(***************************************************************************)
MaxJobs == 2
JobIds == 1..MaxJobs

\* landmarks a client sends: an earring and a ring measurement of a
\* 1000 x 1000 image
JobLandmarks(type) ==
    IF type = "earrings"
    THEN extractFaceLandmarks(FaceFrontal, "earrings", 1000, 1000).value
    ELSE extractHandLandmarks(HandOpen, "ring", 1000, 1000)

JobRequests ==
    { TryOnRequest(JobLandmarks(t), t, MmUnit * k, MmUnit) :
        t \in {"earrings", "ring"}, k \in 1..MaxMmK }

\* mutant: the service keeps the landmarks in its field and measures from it
ServeScaleCaching(i) ==
    /\ jobs[i].pc = "new"
    /\ jobs' = [jobs EXCEPT ![i].pc = "scaled",
                            ![i].local = ProcessVirtualTryOnScale(
                                [jobs[i].req EXCEPT !.landmarks =
                                    IF currentLandmarks.tag = "data"
                                    THEN currentLandmarks ELSE @])]
    /\ currentLandmarks' = jobs[i].req.landmarks

\* the call up to its first await: the request is destructured into locals,
\* the reference and the scale are computed from them; the field
\* currentLandmarks is not assigned
ServeScale(i) ==
    /\ jobs[i].pc = "new"
    /\ jobs' = [jobs EXCEPT ![i].pc = "scaled",
                            ![i].local = ProcessVirtualTryOnScale(jobs[i].req)]
    /\ currentLandmarks' = currentLandmarks

ServiceFrame ==
    UNCHANGED << hookVars, call, result, request, svc, mask, tables, calls,
                 inpaint, route >>

\* STEP 2 of request i
JobScale(i) == ServeScale(i) /\ ServiceFrame

\* STEP 3 of request i: the jewelry is resized to the local targetPx
JobResize(i) ==
    /\ jobs[i].pc = "scaled"
    /\ jobs' = [jobs EXCEPT ![i].pc = "resized",
                            ![i].resizedTo = jobs[i].local.targetPx]
    /\ UNCHANGED currentLandmarks
    /\ ServiceFrame

\* STEP 4 of request i: callIPAdapterInpainting is handed the local
\* landmarks and masks their region
JobInpaint(i) ==
    /\ jobs[i].pc = "resized"
    /\ jobs' = [jobs EXCEPT ![i].pc = "inpainted",
                            ![i].region = jobs[i].req.landmarks.region.points,
                            ![i].maskType = jobs[i].req.jewelryMetadata.type]
    /\ UNCHANGED currentLandmarks
    /\ ServiceFrame

\* the return of request i
JobReturn(i) ==
    /\ jobs[i].pc = "inpainted"
    /\ jobs' = [jobs EXCEPT ![i].pc = "done",
                            ![i].metadata = jobs[i].req.jewelryMetadata]
    /\ UNCHANGED currentLandmarks
    /\ ServiceFrame

NewJob(req) ==
    [pc |-> "new", req |-> req, local |-> NoSvc, resizedTo |-> Null,
     region |-> << >>, maskType |-> "none", metadata |-> [type |-> "none"]]

InitService ==
    /\ isInitialized = FALSE
    /\ isProcessing = FALSE
    /\ error = NoError
    /\ faceLandmarkerRef = FALSE
    /\ handLandmarkerRef = FALSE
    /\ call = IdleCall
    /\ result = NoResult
    /\ request = NoRequest
    /\ svc = NoSvc
    /\ mask = NoMask
    /\ tables = InitialTables
    /\ calls = << >>
    /\ inpaint = NoInpaint
    /\ route = NoRoute
    /\ currentLandmarks = NullLandmarks
    /\ \E reqs \in [JobIds -> JobRequests] :
          jobs = [i \in JobIds |-> NewJob(reqs[i])]

NextService ==
    \E i \in JobIds :
        \/ JobScale(i)
        \/ JobResize(i)
        \/ JobInpaint(i)
        \/ JobReturn(i)

\* MaxJobs requests served by the one service instance, interleaved at
\* their awaits in every order
SpecService == InitService /\ [][NextService]_vars

(***************************************************************************)
(* processImage called again while an earlier call awaits loadImage: the   *)
(* calls share the hook's isProcessing and error                            *)
(***************************************************************************)
MaxCalls == 2
CallIds == 1..MaxCalls

NoCall == [pc |-> "idle", jewelryType |-> "none", error |-> NoError]

OverlapFrame ==
    UNCHANGED << isInitialized, faceLandmarkerRef, handLandmarkerRef, call,
                 result, request, svc, mask, tables, currentLandmarks, jobs,
                 inpaint, route >>

\* call i of processImage up to its await of loadImage
OverlapStart(i, jewelryType) ==
    /\ calls[i].pc = "idle"
    /\ isInitialized
    /\ isProcessing' = TRUE
    /\ error' = NoError
    /\ calls' = [calls EXCEPT ![i] = [pc |-> "loading",
                                      jewelryType |-> jewelryType,
                                      error |-> NoError]]
    /\ OverlapFrame

\* the return of call i with value r: catch sets the error, finally clears
\* isProcessing
OverlapReturn(i, r) ==
    /\ error' = IF r.hasError THEN r.error ELSE error
    /\ calls' = [calls EXCEPT ![i].pc = "returned", ![i].error = r.error]
    /\ isProcessing' = FALSE

\* call i from the resolution (or rejection) of loadImage to its return
OverlapFinish(i) ==
    /\ calls[i].pc = "loading"
    /\ \E loaded \in BOOLEAN, size \in ImageSizes,
          detection \in DetectionsFor(calls[i].jewelryType) :
          /\ loaded \/ detection = << >>
          /\ OverlapReturn(i, ProcessImageResult(calls[i].jewelryType, loaded,
                                                 detection, size[1], size[2]))
    /\ OverlapFrame

\* the hook once initializeMediaPipe has succeeded, no call made yet
InitOverlap ==
    /\ isInitialized = TRUE
    /\ isProcessing = FALSE
    /\ error = NoError
    /\ faceLandmarkerRef = TRUE
    /\ handLandmarkerRef = TRUE
    /\ call = IdleCall
    /\ result = NoResult
    /\ request = NoRequest
    /\ svc = NoSvc
    /\ mask = NoMask
    /\ tables = InitialTables
    /\ currentLandmarks = NullLandmarks
    /\ jobs = << >>
    /\ inpaint = NoInpaint
    /\ route = NoRoute
    /\ calls = [i \in CallIds |-> NoCall]

NextOverlap ==
    \E i \in CallIds :
        \/ \E jewelryType \in JewelryTypes : OverlapStart(i, jewelryType)
        \/ OverlapFinish(i)

\* MaxCalls calls of processImage on one hook, interleaved at their awaits
SpecOverlap == InitOverlap /\ [][NextOverlap]_vars

(***************************************************************************)
(* The inpainting loop over the candidate models: callIPAdapterInpainting  *)
(* of the service and callAdvancedInpainting of its earlier version         *)
(***************************************************************************)
InpaintVariants == {"ipAdapter", "advanced"}

\* the models arrays, in the order the literals list them
InpaintModels(variant) ==
    IF variant = "ipAdapter"
    THEN << "zsxkib/dream-o", "cuuupid/idm-vton",
            "black-forest-labs/flux-fill-pro", "lucataco/sdxl-inpainting" >>
    ELSE << "usamaehsan/controlnet-x-ip-adapter-realistic-vision-v5",
            "black-forest-labs/flux-fill-pro", "lucataco/sdxl-inpainting",
            "andreasjansson/stable-diffusion-inpainting" >>

\* how a model's turn ends: replicate.run rejects, processReplicateOutput
\* throws, or an image buffer comes back
ModelOutcomes == {"ok", "runFails", "outputFails"}

\* mutant: a success is kept and the loop goes on to the next model
InpaintTryContinuing(st) ==
    LET name == InpaintModels(st.variant)[st.index]
    IN  IF st.outcomes[st.index] = "ok"
        THEN [st EXCEPT !.called = Append(@, name), !.output = name,
                        !.index = @ + 1]
        ELSE [st EXCEPT !.called = Append(@, name), !.lastError = name,
                        !.index = @ + 1]

\* one turn of the for loop: the try block returns on success, the catch
\* records the error and continues
InpaintTry(st) ==
    LET name == InpaintModels(st.variant)[st.index]
    IN  IF st.outcomes[st.index] = "ok"
        THEN [st EXCEPT !.called = Append(@, name), !.output = name,
                        !.stage = "returned"]
        ELSE [st EXCEPT !.called = Append(@, name), !.lastError = name,
                        !.index = @ + 1]

\* past the loop: the service returns the buffer it was given, the earlier
\* version throws
InpaintExhausted(st) ==
    IF st.output # "none" THEN [st EXCEPT !.stage = "returned"]
    ELSE IF st.variant = "ipAdapter"
    THEN [st EXCEPT !.stage = "returned", !.output = "modelBuffer"]
    ELSE [st EXCEPT !.stage = "threw",
                    !.message = "All advanced inpainting models failed"]

InpaintFrame ==
    UNCHANGED << hookVars, call, result, request, svc, mask, tables,
                 currentLandmarks, jobs, calls, route >>

\* the loop body for the next model of the list
InpaintNextModel ==
    /\ inpaint.stage = "trying"
    /\ inpaint.index <= Len(InpaintModels(inpaint.variant))
    /\ inpaint' = InpaintTry(inpaint)
    /\ InpaintFrame

\* the statement after the loop
InpaintAfterLoop ==
    /\ inpaint.stage = "trying"
    /\ inpaint.index > Len(InpaintModels(inpaint.variant))
    /\ inpaint' = InpaintExhausted(inpaint)
    /\ InpaintFrame

\* either function at its loop, for every way the models can end
InitInpaint ==
    /\ isInitialized = FALSE
    /\ isProcessing = FALSE
    /\ error = NoError
    /\ faceLandmarkerRef = FALSE
    /\ handLandmarkerRef = FALSE
    /\ call = IdleCall
    /\ result = NoResult
    /\ request = NoRequest
    /\ svc = NoSvc
    /\ mask = NoMask
    /\ tables = InitialTables
    /\ currentLandmarks = NullLandmarks
    /\ jobs = << >>
    /\ calls = << >>
    /\ route = NoRoute
    /\ \E variant \in InpaintVariants :
       \E outcomes \in [DOMAIN InpaintModels(variant) -> ModelOutcomes] :
          inpaint = [stage |-> "trying", variant |-> variant,
                     outcomes |-> outcomes, index |-> 1, called |-> << >>,
                     output |-> "none", lastError |-> "none",
                     message |-> "none"]

NextInpaint == InpaintNextModel \/ InpaintAfterLoop

SpecInpaint == InitInpaint /\ [][NextInpaint]_vars

(***************************************************************************)
(* The route's POST: the body as the client sent it, the validation, the   *)
(* one call of the service and the answer                                   *)
(***************************************************************************)
\* a field of the parsed body as JavaScript tests it: undefined, null and
\* the empty string are falsy
Falsy(v) == v \in {"undefined", "null", ""}

\* the values a client can put in the body: a method of the type or any other
\* string or none, and each field absent, null, empty or filled
RouteMethods == {"upload", "both", "prompt", "camera", "undefined"}
ImageFields == {"undefined", "", "data:image/png;base64"}
LandmarkFields == {"undefined", "null", "data"}
PromptFields == {"undefined", "", "a portrait"}

RawBodies ==
    { [parsed |-> p, method |-> m, modelImage |-> img, landmarks |-> l,
       modelPrompt |-> t, type |-> j] :
        p \in BOOLEAN, m \in RouteMethods, img \in ImageFields,
        l \in LandmarkFields, t \in PromptFields, j \in {"earrings", "ring"} }

\* request.json(): the TryOnRequest the route and the service see
ParseBody(raw) ==
    [TryOnRequest(JobLandmarks(raw.type), raw.type, MmUnit, MmUnit) EXCEPT
        !.method = raw.method,
        !.hasModelImage = ~Falsy(raw.modelImage),
        !.hasLandmarks = ~Falsy(raw.landmarks),
        !.hasModelPrompt = ~Falsy(raw.modelPrompt),
        !.landmarks = IF Falsy(raw.landmarks) THEN NullLandmarks ELSE @]

\* the message of the error that reaches the route's catch block
ThrownMessage(req) ==
    IF req.method = "none" THEN "Unexpected end of JSON input"
    ELSE IF req.method = "prompt"
    THEN "Prompt-based generation is not yet implemented."
    ELSE "Model image and landmarks are required for this method."

\* the status of the catch block: the three texts it looks for, none of
\* which is part of a message above ('landmarks are required' is lower case)
CatchStatus(message) ==
    IF message = "Landmarks are required" THEN 400
    ELSE IF message \in {"Inpainting failed",
                         "Failed to fetch inpainting result"} THEN 502
    ELSE 500

RouteFrame ==
    UNCHANGED << hookVars, call, result, mask, tables, currentLandmarks, jobs,
                 calls, inpaint >>

\* POST from request.json() to the call of processVirtualTryOn, or to the
\* answer when the body does not parse or fails the validation
RouteReceive(raw, variant) ==
    /\ route.stage = "none"
    /\ svc' = NoSvc
    /\ IF ~raw.parsed
       THEN /\ request' = NoRequest
            /\ route' = [stage |-> "answered", body |-> raw,
                         variant |-> variant, status |-> CatchStatus(ThrownMessage(NoRequest)),
                         serviceCalls |-> 0]
       ELSE /\ request' = ParseBody(raw)
            /\ IF RouteValidation(ParseBody(raw)) # 0
               THEN route' = [stage |-> "answered", body |-> raw,
                              variant |-> variant,
                              status |-> RouteValidation(ParseBody(raw)),
                              serviceCalls |-> 0]
               ELSE route' = [stage |-> "serving", body |-> raw,
                              variant |-> variant, status |-> 0,
                              serviceCalls |-> 1]
    /\ RouteFrame

\* the service settles: NextResponse.json(result), or the catch block
RouteAnswer ==
    /\ route.stage = "serving"
    /\ svc' = RoutePost(request, route.variant)
    /\ route' = [route EXCEPT !.stage = "answered",
                              !.status = IF svc'.stage = "threw"
                                         THEN CatchStatus(ThrownMessage(request))
                                         ELSE 200]
    /\ UNCHANGED request
    /\ RouteFrame

InitRoute ==
    /\ isInitialized = FALSE
    /\ isProcessing = FALSE
    /\ error = NoError
    /\ faceLandmarkerRef = FALSE
    /\ handLandmarkerRef = FALSE
    /\ call = IdleCall
    /\ result = NoResult
    /\ request = NoRequest
    /\ svc = NoSvc
    /\ mask = NoMask
    /\ tables = InitialTables
    /\ currentLandmarks = NullLandmarks
    /\ jobs = << >>
    /\ calls = << >>
    /\ inpaint = NoInpaint
    /\ route = NoRoute

NextRoute ==
    \/ \E raw \in RawBodies, variant \in Variants : RouteReceive(raw, variant)
    \/ RouteAnswer

\* a request posted to the route, for every body a client can send
SpecRoute == InitRoute /\ [][NextRoute]_vars

Next ==
    \/ \E outcome \in InitOutcomes : InitializeMediaPipe(outcome)
    \/ \E t \in JewelryTypes, outcome \in InitOutcomes :
          ProcessImageUninitialized(t, outcome)
    \/ \E t \in JewelryTypes : ProcessImageStart(t)
    \/ ProcessImageFinish
    \/ \E w \in Widths, h \in Heights, v \in Variants : TryOn(w, h, v)

Spec == Init /\ [][Next]_vars

(***************************************************************************)
(* Properties                                                              *)
(***************************************************************************)
Zero == Int2Num(0)
Half == R(1, 2)
Scaled == svc.stage = "resize"
ScaledMain == svc.stage = "resize" /\ svc.variant = "main"
ScaledV1 == svc.stage = "resize" /\ svc.variant = "v1"
Meta == request.jewelryMetadata

\* refWidth * (width / reference mm), taken as (refWidth * width) / reference mm
Proportion(refWidth, width, referenceMm) ==
    Div(Mul(refWidth, width), Int2Num(referenceMm))

C2_PositiveTarget ==
    (Scaled /\ Gt(Meta.width, Zero) /\ Gt(Meta.height, Zero)) =>
        /\ svc.variant = "main" => Gt(svc.targetPx, Zero)
        /\ svc.variant = "v1" =>
              /\ Gt(svc.targetPixelWidth, Zero)
              /\ Gt(svc.targetPixelHeight, Zero)

Twice(a) == Mul(Int2Num(2), a)
TwicePt(p) == Pt(Twice(p.x), Twice(p.y))

\* l2 is l1 with every pixel-space output of extraction doubled
DoubledLandmarks(l1, l2) ==
    /\ l2.refWidth = Twice(l1.refWidth)
    /\ l2.position = TwicePt(l1.position)
    /\ Len(l2.region.points) = Len(l1.region.points)
    /\ \A i \in 1..Len(l1.region.points) :
          l2.region.points[i] = TwicePt(l1.region.points[i])

\* the extraction of the returned call, and the same detection on an image
\* of twice the width and twice the height
ReturnedLoaded == call.pc = "returned" /\ call.loaded
AtDoubleSize ==
    ProcessImageResult(call.jewelryType, TRUE, call.detection,
                       2 * call.imgWidth, 2 * call.imgHeight)
SomeMeta(type) == [type |-> type, width |-> Int2Num(15), height |-> Int2Num(15)]

FiniteLandmark(l) == l.def /\ l.x.k = "num" /\ l.y.k = "num"

Resolvable(hand, finger) ==
    FiniteLandmark(hand[finger.base]) /\ FiniteLandmark(hand[finger.mid])

ResolvableFingers(hand) ==
    { i \in 1..Len(fingerOptions) : Resolvable(hand, fingerOptions[i]) }

FirstOf(S) == CHOOSE i \in S : \A j \in S : i <= j

RingCallOneHand ==
    ReturnedLoaded /\ call.jewelryType = "ring" /\ Len(call.detection) = 1

\* the measurement of finger f of hand h is what was returned
MeasuredFrom(h, f) ==
    LET bx == Mul(h[f.base].x, Int2Num(call.imgWidth))
        mx == Mul(h[f.mid].x, Int2Num(call.imgWidth))
        by == Mul(h[f.base].y, Int2Num(call.imgHeight))
        my == Mul(h[f.mid].y, Int2Num(call.imgHeight))
    IN  /\ result.landmarks.tag = "data"
        /\ result.landmarks.position = Pt(Div(Add(bx, mx), Int2Num(2)),
                                          Div(Add(by, my), Int2Num(2)))
        /\ result.landmarks.refWidth = Mul(MathAbs(Sub(bx, mx)), R(5, 2))

\* C4: for ring, the candidate pairs (13,14), (9,10), (5,6) are walked in
\* that order and the first pair whose two landmarks exist and are finite is
\* the one measured; a pair with a missing or non-finite landmark is never
\* accepted.
C4_FirstResolvableFinger ==
    RingCallOneHand =>
        LET h == call.detection[1]
        IN  IF ResolvableFingers(h) = {}
            THEN result.landmarks.tag = "null"
            ELSE MeasuredFrom(h, fingerOptions[FirstOf(ResolvableFingers(h))])

\* C5: for ring, when every candidate pair of every detected hand is absent
\* (a landmark undefined or NaN), processImage fails with landmarks null.
C5_MissingAnatomy ==
    (/\ ReturnedLoaded
     /\ call.jewelryType = "ring"
     /\ \A k \in 1..Len(call.detection) :
           ResolvableFingers(call.detection[k]) = {}) =>
        /\ result.landmarks.tag = "null"
        /\ result.hasError

\* processImage returned a LandmarkData
Extracted == result.returned /\ result.landmarks.tag = "data"

\* C6: every successfully returned reference measurement has refWidth > 0.
C6_PositiveRefWidth ==
    Extracted => Gt(result.landmarks.refWidth, Zero)

\* twice the signed area of a polygon (shoelace sum), from vertex i on
RECURSIVE Shoelace(_, _)
Shoelace(points, i) ==
    IF i > Len(points) THEN Zero
    ELSE LET p == points[i]
             q == points[(i % Len(points)) + 1]
         IN  Add(Sub(Mul(p.x, q.y), Mul(q.x, p.y)), Shoelace(points, i + 1))

\* C7: every returned placement region is a polygon of at least 3 vertices
\* with strictly positive area.
C7_PositiveArea ==
    Extracted =>
        /\ Len(result.landmarks.region.points) >= 3
        /\ Gt(MathAbs(Shoelace(result.landmarks.region.points, 1)), Zero)

\* C8: a request whose accessory width or height is <= 0 is rejected before
\* any scale computation: no target pixel size is computed, no resize made.
C8_InvalidDimensionsRejected ==
    (/\ request.method # "none"
     /\ (Le(Meta.width, Zero) \/ Le(Meta.height, Zero))) =>
        ~Scaled

\* C9: every result of processImage is a success (landmarks, no error,
\* confidence 0.95) or a failure (landmarks null, an error, confidence 0).
C9_NoPartialResult ==
    result.returned =>
        \/ /\ result.landmarks.tag = "data"
           /\ ~result.hasError
           /\ result.error = NoError
           /\ result.confidence = R(95, 100)
        \/ /\ result.landmarks.tag = "null"
           /\ result.hasError
           /\ result.error # NoError
           /\ result.confidence = Zero

\* witness of C9: a failure whose error is the exception thrown inside
\* extraction
C9_Witness ==
    /\ ReturnedLoaded
    /\ call.jewelryType = "necklace"
    /\ result.hasError
    /\ result.error = TypeErrorMessage
    /\ result.landmarks.tag = "null"

Expanded == mask.stage = "expanded"

\* the distance of point p from the centroid of the input polygon
FromCentroid(p) ==
    Distance(Sub(p.x, Centroid(mask.points).x), Sub(p.y, Centroid(mask.points).y))

NoVertexAtCentroid ==
    \A i \in 1..Len(mask.points) : mask.points[i] # Centroid(mask.points)

\* tolerance of "within epsilon"
Epsilon == R(1, 20)

Within(a, b, eps) == Le(MathAbs(Sub(a, b)), eps)

\* e lies on the ray from c through v
OnRay(e, v, c) ==
    /\ Mul(Sub(e.x, c.x), Sub(v.y, c.y)) = Mul(Sub(e.y, c.y), Sub(v.x, c.x))
    /\ Gt(Add(Mul(Sub(e.x, c.x), Sub(v.x, c.x)), Mul(Sub(e.y, c.y), Sub(v.y, c.y))),
          Zero)

RayPoint(v, c, padding) ==
    Pt(Add(v.x, Div(Mul(padding, Sub(v.x, c.x)), FromCentroid(v))),
       Add(v.y, Div(Mul(padding, Sub(v.y, c.y)), FromCentroid(v))))

C11_ZeroPaddingIdentity ==
    (Expanded /\ mask.padding = Zero) =>
        /\ Len(mask.expanded) = Len(mask.points)
        /\ \A i \in 1..Len(mask.points) :
              /\ Within(mask.expanded[i].x, mask.points[i].x, Epsilon)
              /\ Within(mask.expanded[i].y, mask.points[i].y, Epsilon)

\* C12: every coordinate of every vertex expandPolygon returns is a finite
\* number, also when a vertex of the input coincides with the centroid.
C12_FiniteVertices ==
    Expanded =>
        \A i \in 1..Len(mask.expanded) :
            IsFinite(mask.expanded[i].x) /\ IsFinite(mask.expanded[i].y)

PixelOf(l) == ToPixel(l, call.imgWidth, call.imgHeight)

\* the span |a.x - b.x| of two landmarks in pixel space
PixelSpanX(a, b) == MathAbs(Sub(PixelOf(a).x, PixelOf(b).x))

PixelMidpoint(a, b) ==
    Pt(Div(Add(PixelOf(a).x, PixelOf(b).x), Int2Num(2)),
       Div(Add(PixelOf(a).y, PixelOf(b).y), Int2Num(2)))

ExtractedFor(type) ==
    ReturnedLoaded /\ call.jewelryType = type /\ result.landmarks.tag = "data"

C15_NecklaceReference ==
    ExtractedFor("necklace") =>
        LET f == call.detection[1]
        IN  /\ result.landmarks.refWidth = PixelSpanX(f[205], f[425])
            /\ result.landmarks.position =
                   Pt(PixelOf(f[152]).x,
                      Add(PixelOf(f[152]).y,
                          Mul(R(1, 5), result.landmarks.refWidth)))
            /\ (/\ PixelOf(f[152]) = Pt(Int2Num(500), Int2Num(600))
                /\ result.landmarks.refWidth = Int2Num(200)) =>
                   result.landmarks.position = Pt(Int2Num(500), Int2Num(640))

\* witness of C15: chin at (500,600), reference width 200, center (500,640)
C15_Witness ==
    /\ ExtractedFor("necklace")
    /\ PixelOf(call.detection[1][152]) = Pt(Int2Num(500), Int2Num(600))
    /\ result.landmarks.refWidth = Int2Num(200)
    /\ result.landmarks.position = Pt(Int2Num(500), Int2Num(640))

\* both landmarks of finger f are present in hand h
PairPresent(h, f) == h[f.base].def /\ h[f.mid].def

PresentFingers(h) ==
    { i \in 1..Len(fingerOptions) : PairPresent(h, fingerOptions[i]) }

\* the hands of the detection in which extraction for the ring finds a finger
HandsWithFinger == { k \in 1..Len(call.detection) : PresentFingers(call.detection[k]) # {} }

\* C16: for ring the reference pixel width is |base.x - mid.x| of the
\* selected finger in pixel space times 2.5 and the center is the midpoint
\* of those two landmarks; the selected finger is the first present pair of
\* the first hand that has one.
C16_RingReference ==
    ExtractedFor("ring") =>
        /\ HandsWithFinger # {}
        /\ LET h == call.detection[FirstOf(HandsWithFinger)]
               f == fingerOptions[FirstOf(PresentFingers(h))]
           IN  /\ result.landmarks.refWidth =
                      Mul(PixelSpanX(h[f.base], h[f.mid]), R(5, 2))
               /\ result.landmarks.position = PixelMidpoint(h[f.base], h[f.mid])

\* witness of C16: a ring measured on a finger whose joints differ in x and
\* in y, so that the midpoint is neither joint
C16_Witness ==
    /\ ExtractedFor("ring")
    /\ Gt(result.landmarks.refWidth, Zero)
    /\ LET h == call.detection[FirstOf(HandsWithFinger)]
           f == fingerOptions[FirstOf(PresentFingers(h))]
       IN  /\ result.landmarks.position # PixelOf(h[f.base])
           /\ result.landmarks.position # PixelOf(h[f.mid])
           /\ PixelOf(h[f.base]).y # PixelOf(h[f.mid]).y

\* the hands of the detection in which the three bracelet landmarks exist
HandsWithWrist ==
    { k \in 1..Len(call.detection) :
        /\ call.detection[k][0].def
        /\ call.detection[k][5].def
        /\ call.detection[k][17].def }

\* C17 as stated: for bracelet the reference pixel width is |x5 - x17| in
\* pixel space and the center is the midpoint of landmarks 5 and 17.
C17_AsStated ==
    ExtractedFor("bracelet") =>
        LET h == call.detection[FirstOf(HandsWithWrist)]
        IN  /\ result.landmarks.refWidth = PixelSpanX(h[5], h[17])
            /\ result.landmarks.position = PixelMidpoint(h[5], h[17])

\* C17 (amended): for bracelet the reference pixel width is |x5 - x17| in
\* pixel space and the center is the pixel position of the wrist landmark
\* (index 0) of the first hand in which landmarks 0, 5 and 17 exist.
C17_BraceletWristAnchor ==
    ExtractedFor("bracelet") =>
        /\ HandsWithWrist # {}
        /\ LET h == call.detection[FirstOf(HandsWithWrist)]
           IN  /\ result.landmarks.refWidth = PixelSpanX(h[5], h[17])
               /\ result.landmarks.position = PixelOf(h[0])

\* witness of C17: a bracelet placed on a wrist landmark that is not the
\* midpoint of the index and pinky MCP
C17_Witness ==
    /\ ExtractedFor("bracelet")
    /\ Gt(result.landmarks.refWidth, Zero)
    /\ LET h == call.detection[FirstOf(HandsWithWrist)]
       IN  /\ result.landmarks.position = PixelOf(h[0])
           /\ result.landmarks.position # PixelMidpoint(h[5], h[17])

FaceCall == ReturnedLoaded /\ call.jewelryType \in {"earrings", "necklace"}

\* the fixed landmark indices of a face-based category
FixedIdx(type) ==
    IF type = "earrings" THEN {132, 135, 165, 150} ELSE {205, 425, 152}

\* face with every landmark outside S removed
OnlyLandmarks(S, face) ==
    [i \in DOMAIN face |-> IF i \in S THEN face[i] ELSE Undefined]

FixedMissing ==
    \/ Len(call.detection) = 0
    \/ \E i \in FixedIdx(call.jewelryType) : ~call.detection[1][i].def

\* C18: for earrings and necklace, a missing fixed landmark makes the call
\* fail (landmarks null, an error) and nothing is substituted: the result is
\* the one computed from the fixed indices alone.
C18_FixedFaceIndices ==
    FaceCall =>
        /\ FixedMissing =>
              /\ result.landmarks.tag = "null"
              /\ result.hasError
              /\ result.error # NoError
              /\ result.confidence = Zero
        /\ Len(call.detection) > 0 =>
              result = ProcessImageResult(call.jewelryType, TRUE,
                           << OnlyLandmarks(FixedIdx(call.jewelryType),
                                            call.detection[1]) >>,
                           call.imgWidth, call.imgHeight)
        /\ result.landmarks.tag = "data" => ~FixedMissing

\* witness of C18: an earrings call that fails on a missing ear landmark
\* while the cheek and chin landmarks of the face are present
C18_Witness ==
    /\ FaceCall
    /\ call.jewelryType = "earrings"
    /\ Len(call.detection) = 1
    /\ ~call.detection[1][135].def
    /\ call.detection[1][132].def
    /\ call.detection[1][205].def
    /\ call.detection[1][425].def
    /\ call.detection[1][152].def
    /\ result.landmarks.tag = "null"
    /\ result.hasError

MaskGenerated == mask.stage = "masked"

\* C19: for every category, and for the default taken for an unknown one,
\* the opacities of the feathering gradient never increase from the inner
\* to the outer stop (1 >= midOpacity >= outerOpacity) and the stop offsets
\* are ordered 0 <= innerStop <= midStop <= 100.
C19_FeatheringMonotone ==
    MaskGenerated =>
        /\ Len(mask.stops) = 4
        /\ \A i \in 1..3 :
              /\ Le(mask.stops[i + 1].opacity, mask.stops[i].opacity)
              /\ Le(mask.stops[i].offset, mask.stops[i + 1].offset)
        /\ mask.stops[1].offset = Zero
        /\ mask.stops[1].opacity = Int2Num(1)
        /\ mask.stops[4].offset = Int2Num(100)
        /\ Le(Zero, mask.stops[4].opacity)
        /\ Le(mask.gradientType.midOpacity, Int2Num(1))
        /\ Le(mask.gradientType.outerOpacity, mask.gradientType.midOpacity)
        /\ Le(Zero, mask.gradientType.innerStop)
        /\ Le(mask.gradientType.innerStop, mask.gradientType.midStop)
        /\ Le(mask.gradientType.midStop, Int2Num(100))

\* witness of C19: the mask of an unknown category, feathered with the
\* default profile, whose opacity strictly falls towards the edge
C19_Witness ==
    /\ MaskGenerated
    /\ mask.jewelryType = "unknown"
    /\ mask.gradientType = gradientTypes.necklace
    /\ Lt(mask.stops[4].opacity, mask.stops[3].opacity)
    /\ Lt(mask.stops[3].opacity, mask.stops[2].opacity)

\* the reference points and the padding factor extraction hands to
\* createRegionFromPoints in the call that returned
RegionInputs ==
    IF call.jewelryType = "earrings"
    THEN [points |-> [i \in 1..4 |-> PixelOf(call.detection[1][EarIndices[i]])],
          factor |-> R(3, 2)]
    ELSE IF call.jewelryType = "necklace"
    THEN LET f == call.detection[1]
         IN  [points |-> << PixelOf(f[205]), PixelOf(f[425]),
                            Pt(PixelOf(f[152]).x,
                               Mul(Add(f[152].y, R(1, 10)),
                                   Int2Num(call.imgHeight))) >>,
              factor |-> R(6, 5)]
    ELSE IF call.jewelryType = "ring"
    THEN LET h == call.detection[FirstOf(HandsWithFinger)]
             f == fingerOptions[FirstOf(PresentFingers(h))]
         IN  [points |-> << PixelOf(h[f.base]), PixelOf(h[f.mid]) >>,
              factor |-> Int2Num(3)]
    ELSE LET h == call.detection[FirstOf(HandsWithWrist)]
             drop == Mul(PixelSpanX(h[5], h[17]), Half)
         IN  [points |-> << PixelOf(h[5]), PixelOf(h[17]),
                            Pt(PixelOf(h[17]).x, Add(PixelOf(h[17]).y, drop)),
                            Pt(PixelOf(h[5]).x, Add(PixelOf(h[5]).y, drop)) >>,
              factor |-> R(6, 5)]

FinitePoints(points) ==
    \A i \in 1..Len(points) : IsFinite(points[i].x) /\ IsFinite(points[i].y)

\* the least and the greatest of a non-empty set of finite numbers
Least(S) == CHOOSE a \in S : \A b \in S : Le(a, b)
Greatest(S) == CHOOSE a \in S : \A b \in S : Le(b, a)

Xs(points) == { points[i].x : i \in 1..Len(points) }
Ys(points) == { points[i].y : i \in 1..Len(points) }

\* rectangle r (4 corners from the top-left, clockwise) is the bounding box
\* of points scaled about the box's center by factor
ScaledBoundingBox(r, points, factor) ==
    /\ Len(r) = 4
    /\ r[1].y = r[2].y /\ r[2].x = r[3].x
    /\ r[3].y = r[4].y /\ r[4].x = r[1].x
    /\ Add(r[1].x, r[3].x) = Add(Least(Xs(points)), Greatest(Xs(points)))
    /\ Add(r[1].y, r[3].y) = Add(Least(Ys(points)), Greatest(Ys(points)))
    /\ Sub(r[3].x, r[1].x) =
           Mul(Sub(Greatest(Xs(points)), Least(Xs(points))), factor)
    /\ Sub(r[3].y, r[1].y) =
           Mul(Sub(Greatest(Ys(points)), Least(Ys(points))), factor)

ContainsPoint(r, p) ==
    /\ Le(r[1].x, p.x) /\ Le(p.x, r[3].x)
    /\ Le(r[1].y, p.y) /\ Le(p.y, r[3].y)

\* C20: the region built from a set of (finite) reference points is their
\* axis-aligned bounding box scaled about its center by the padding factor;
\* the factor is >= 1, so the rectangle keeps the box's center and contains
\* every reference point.
C20_ScaledBoundingBox ==
    (Extracted /\ ReturnedLoaded /\ FinitePoints(RegionInputs.points)) =>
        /\ Le(Int2Num(1), RegionInputs.factor)
        /\ ScaledBoundingBox(result.landmarks.region.points,
                             RegionInputs.points, RegionInputs.factor)
        /\ \A i \in 1..Len(RegionInputs.points) :
              ContainsPoint(result.landmarks.region.points,
                            RegionInputs.points[i])

\* witness of C20: a necklace region strictly wider and higher than the
\* bounding box of its three reference points
C20_Witness ==
    /\ ExtractedFor("necklace")
    /\ FinitePoints(RegionInputs.points)
    /\ Lt(result.landmarks.region.points[1].x, Least(Xs(RegionInputs.points)))
    /\ Lt(result.landmarks.region.points[1].y, Least(Ys(RegionInputs.points)))
    /\ Lt(Greatest(Xs(RegionInputs.points)), result.landmarks.region.points[3].x)

\* the factor by which the returned region is wider than the bounding box of
\* the reference points
ObservedFactor ==
    Div(Sub(result.landmarks.region.points[3].x,
            result.landmarks.region.points[1].x),
        Sub(Greatest(Xs(RegionInputs.points)), Least(Xs(RegionInputs.points))))

\* the factor extraction applies for a category, measured on the region it
\* returns for an open hand or a frontal face in a 1000 x 1000 image
FactorSample(type) ==
    IF type \in {"earrings", "necklace"}
    THEN extractFaceLandmarks(FaceFrontal, type, 1000, 1000).value.region.points
    ELSE extractHandLandmarks(HandOpen, type, 1000, 1000).region.points

FactorOf(type) ==
    IF type = "earrings"
    THEN Div(Sub(FactorSample(type)[3].x, FactorSample(type)[1].x),
             Int2Num(50))
    ELSE IF type = "necklace"
    THEN Div(Sub(FactorSample(type)[3].x, FactorSample(type)[1].x),
             Int2Num(200))
    ELSE IF type = "ring"
    THEN Div(Sub(FactorSample(type)[3].x, FactorSample(type)[1].x),
             Int2Num(20))
    ELSE Div(Sub(FactorSample(type)[3].x, FactorSample(type)[1].x),
             Int2Num(300))

\* a returned region whose reference points are finite and differ in x
WideRegion ==
    /\ Extracted
    /\ ReturnedLoaded
    /\ FinitePoints(RegionInputs.points)
    /\ Lt(Least(Xs(RegionInputs.points)), Greatest(Xs(RegionInputs.points)))

\* C21: the padding factor that expands the bounding box is >= 1 for every
\* category, largest for necklace and smallest for ring.
C21_PaddingFactorOrder ==
    WideRegion =>
        /\ ObservedFactor = FactorOf(call.jewelryType)
        /\ Le(Int2Num(1), ObservedFactor)
        /\ Le(ObservedFactor, FactorOf("necklace"))
        /\ Le(FactorOf("ring"), ObservedFactor)

\* C22: of the four feathering profiles, necklace has the largest gradient
\* radius and the largest blur, ring the smallest radius and smallest blur.
C22_GradientOrder ==
    (MaskGenerated /\ mask.jewelryType \in JewelryTypes) =>
        /\ mask.gradientType = getGradientType(mask.jewelryType)
        /\ Le(mask.gradientType.radius, getGradientType("necklace").radius)
        /\ Le(mask.gradientType.blur, getGradientType("necklace").blur)
        /\ Le(getGradientType("ring").radius, mask.gradientType.radius)
        /\ Le(getGradientType("ring").blur, mask.gradientType.blur)
        /\ mask.jewelryType = "necklace" =>
              \A t \in JewelryTypes :
                  /\ Le(getGradientType(t).radius, mask.gradientType.radius)
                  /\ Le(getGradientType(t).blur, mask.gradientType.blur)
        /\ mask.jewelryType = "ring" =>
              \A t \in JewelryTypes :
                  /\ Le(mask.gradientType.radius, getGradientType(t).radius)
                  /\ Le(mask.gradientType.blur, getGradientType(t).blur)

\* witness of C22: the mask of a ring, whose radius and blur are strictly
\* below the necklace's
C22_Witness ==
    /\ MaskGenerated
    /\ mask.jewelryType = "ring"
    /\ Lt(mask.gradientType.radius, getGradientType("necklace").radius)
    /\ Lt(mask.gradientType.blur, getGradientType("necklace").blur)

\* the padding generateRealisticMask would take for the mask's category
\* under quality q and complexity c
PaddingAt(q, c) ==
    getAdaptivePadding(mask.jewelryType, [quality |-> q, complexity |-> c])

Complexities == { a.complexity : a \in ImageAnalyses }

\* C23: for every category the adaptive padding is monotone in its inputs:
\* with quality fixed, complexity above 0.5 gives a greater padding than
\* complexity at or below 0.5; with complexity fixed, quality low gives a
\* smaller padding than medium, and medium not a greater one than high.
C23_AdaptivePaddingMonotone ==
    MaskGenerated =>
        /\ mask.padding =
               PaddingAt(mask.imageAnalysis.quality, mask.imageAnalysis.complexity)
        /\ \A c \in Complexities :
              /\ (Gt(c, Half) /\ Le(mask.imageAnalysis.complexity, Half)) =>
                    Gt(PaddingAt(mask.imageAnalysis.quality, c), mask.padding)
              /\ (Le(c, Half) /\ Gt(mask.imageAnalysis.complexity, Half)) =>
                    Lt(PaddingAt(mask.imageAnalysis.quality, c), mask.padding)
        /\ mask.imageAnalysis.quality = "low" =>
              Lt(mask.padding, PaddingAt("medium", mask.imageAnalysis.complexity))
        /\ mask.imageAnalysis.quality = "medium" =>
              /\ Lt(PaddingAt("low", mask.imageAnalysis.complexity), mask.padding)
              /\ Le(mask.padding, PaddingAt("high", mask.imageAnalysis.complexity))
        /\ mask.imageAnalysis.quality = "high" =>
              Le(PaddingAt("medium", mask.imageAnalysis.complexity), mask.padding)

\* witness of C23: a ring mask at low quality and low complexity, where the
\* padding sits on its floor of 4
C23_Witness ==
    /\ MaskGenerated
    /\ mask.jewelryType = "ring"
    /\ mask.imageAnalysis.quality = "low"
    /\ Le(mask.imageAnalysis.complexity, Half)
    /\ mask.padding = Int2Num(4)
    /\ PaddingAt("low", R(3, 4)) = Int2Num(7)

\* C24: the per-category constant tables are never written: after any
\* sequence of processImage and processVirtualTryOn requests every entry has
\* the value the module initialization gave it.
C24_TablesReadOnly ==
    /\ tables = InitialTables
    /\ \A t \in JewelryTypes :
          /\ tables.service[t] = REFERENCE_SIZES_MM[t]
          /\ tables.overlay[t] = REFERENCE_SIZES_MM_V1[t]
          /\ tables.hook[t] = REFERENCE_SIZES_MM_HOOK[t]
          /\ getReferenceSizeMm(t) = Int2Num(REFERENCE_SIZES_MM[t])

\* witness of C24: a request for earrings served from the 20 mm entry, with
\* the tables as they were initialized
C24_Witness ==
    /\ ScaledMain
    /\ Meta.type = "earrings"
    /\ Gt(Meta.width, Zero)
    /\ svc.scale = Div(Meta.width, Int2Num(20))
    /\ tables = InitialTables

\* what request req gets when the service serves it alone
AloneRun(req) == ProcessVirtualTryOnScale(req)

\* C25: under every interleaving of the requests on the one service
\* instance, the scale, center and region computed for a request are those
\* of its run alone, and the service's field currentLandmarks is never
\* written, so nothing one request wrote is read by another.
C25_RequestsIndependent ==
    /\ currentLandmarks = NullLandmarks
    /\ \A i \in DOMAIN jobs :
          /\ jobs[i].pc # "new" =>
                /\ jobs[i].local = AloneRun(jobs[i].req)
                /\ jobs[i].local.refPx = jobs[i].req.landmarks.refWidth
                /\ jobs[i].local.x = MathRound(jobs[i].req.landmarks.position.x)
                /\ jobs[i].local.y = MathRound(jobs[i].req.landmarks.position.y)
                /\ jobs[i].local.scale =
                       Div(jobs[i].req.jewelryMetadata.width,
                           Int2Num(REFERENCE_SIZES_MM[jobs[i].req.jewelryMetadata.type]))
          /\ jobs[i].pc \in {"resized", "inpainted", "done"} =>
                jobs[i].resizedTo = AloneRun(jobs[i].req).targetPx
          /\ jobs[i].pc \in {"inpainted", "done"} =>
                /\ jobs[i].region = jobs[i].req.landmarks.region.points
                /\ jobs[i].maskType = jobs[i].req.jewelryMetadata.type
          /\ jobs[i].pc = "done" =>
                jobs[i].metadata = jobs[i].req.jewelryMetadata

\* witness of C25: a ring request scaled while an earring request, begun
\* before it, is suspended further on
C25_Witness ==
    /\ DOMAIN jobs = JobIds
    /\ jobs[1].pc = "resized"
    /\ jobs[2].pc = "scaled"
    /\ jobs[1].req.jewelryMetadata.type = "earrings"
    /\ jobs[2].req.jewelryMetadata.type = "ring"
    /\ jobs[2].local.refPx = Int2Num(50)
    /\ jobs[1].local.refPx = Int2Num(60)


\* C26: a processImage call made before initialization returns the error
\* 'MediaPipe not initialized' only when the initializeMediaPipe it awaited
\* did not succeed; when it succeeded the call goes on to detection.
C26_InitThenDetect ==
    (call.pc = "returned" /\ result.error = "MediaPipe not initialized")
        => call.awaited # "ok"


\* the calls that have set isProcessing and have not returned
InFlight == { i \in DOMAIN calls : calls[i].pc = "loading" }

\* C27: isProcessing is true in every state in which some processImage call
\* is under way and false once every started call has returned.
C27_ProcessingWhileInFlight == isProcessing = (InFlight # {})


InpaintStarted == inpaint.stage # "none"

InpaintEnded == inpaint.stage \in {"returned", "threw"}

\* the models called so far that failed
FailedAmong(n) == { k \in 1..n : inpaint.outcomes[k] # "ok" }

AllModelsFail ==
    \A k \in DOMAIN inpaint.outcomes : inpaint.outcomes[k] # "ok"

\* the models are called in list order, each only after all before it failed
InpaintInOrder ==
    /\ Len(inpaint.called) <= Len(InpaintModels(inpaint.variant))
    /\ inpaint.called =
           SubSeq(InpaintModels(inpaint.variant), 1, Len(inpaint.called))
    /\ FailedAmong(Len(inpaint.called) - 1) = 1..(Len(inpaint.called) - 1)
    /\ inpaint.stage = "trying" =>
           FailedAmong(Len(inpaint.called)) = 1..Len(inpaint.called)

\* a model's output is returned exactly when it is the first that succeeds,
\* and it is the last model called
InpaintFirstSuccess ==
    (inpaint.stage = "returned" /\ ~AllModelsFail) =>
        /\ inpaint.called # << >>
        /\ inpaint.outcomes[Len(inpaint.called)] = "ok"
        /\ inpaint.output = InpaintModels(inpaint.variant)[Len(inpaint.called)]

\* C28 as stated: when every model fails the step returns the original model
\* image buffer instead of raising, in callIPAdapterInpainting and in
\* callAdvancedInpainting alike.
C28_AsStated ==
    (InpaintStarted /\ InpaintEnded /\ AllModelsFail) =>
        (inpaint.stage = "returned" /\ inpaint.output = "modelBuffer")

\* C28 (amended): the models are tried strictly in list order, a model is
\* called only after every earlier one failed, and the first success is
\* returned without calling a later model; when every model fails, all were
\* called, and callIPAdapterInpainting returns the original model image
\* buffer while callAdvancedInpainting raises 'All advanced inpainting
\* models failed'.
C28_InpaintingFallback ==
    InpaintStarted =>
        /\ InpaintInOrder
        /\ InpaintFirstSuccess
        /\ (InpaintEnded /\ AllModelsFail) =>
              /\ inpaint.called = InpaintModels(inpaint.variant)
              /\ inpaint.variant = "ipAdapter" =>
                    (inpaint.stage = "returned" /\ inpaint.output = "modelBuffer")
              /\ inpaint.variant = "advanced" =>
                    /\ inpaint.stage = "threw"
                    /\ inpaint.message = "All advanced inpainting models failed"
        /\ (inpaint.stage = "threw" \/ inpaint.output = "modelBuffer") =>
              AllModelsFail

\* witness of C28: the third model is the first to succeed; its output is
\* returned and the fourth, which would succeed too, is never called
C28_Witness ==
    /\ inpaint.stage = "returned"
    /\ inpaint.variant = "ipAdapter"
    /\ inpaint.outcomes = << "runFails", "outputFails", "ok", "ok" >>
    /\ inpaint.output = "black-forest-labs/flux-fill-pro"
    /\ Len(inpaint.called) = 3


\* the bodies the claim says must be refused, told from the fields as sent
RefusedBody(b) ==
    \/ b.method \in {"upload", "both"}
          /\ (Falsy(b.modelImage) \/ Falsy(b.landmarks))
    \/ b.method = "prompt" /\ Falsy(b.modelPrompt)
    \/ b.method \notin {"upload", "both", "prompt"}

\* C29: a body whose method is 'upload' or 'both' without model image or
\* landmarks, or 'prompt' without model prompt, or any other method, is
\* answered 400 with processVirtualTryOn never invoked; for every body that
\* passes the validation the service is invoked exactly once.
C29_ValidationGuardsService ==
    (route.stage # "none" /\ route.body.parsed) =>
        IF RefusedBody(route.body)
        THEN /\ route.stage = "answered"
             /\ route.status = 400
             /\ route.serviceCalls = 0
             /\ svc = NoSvc
        ELSE /\ route.serviceCalls = 1
             /\ route.stage = "answered" =>
                   (svc # NoSvc /\ svc.stage # "badRequest")

\* witness of C29: method 'both' with an image but null landmarks is
\* answered 400 and the service was not invoked
C29_Witness ==
    /\ route.stage = "answered"
    /\ route.body.parsed
    /\ route.body.method = "both"
    /\ route.body.modelImage = "data:image/png;base64"
    /\ route.body.landmarks = "null"
    /\ route.status = 400
    /\ route.serviceCalls = 0


\* a returned processImage call for ring or bracelet whose detection holds
\* several hands
SeveralHandsCall ==
    /\ call.pc = "returned"
    /\ call.loaded
    /\ call.jewelryType \in {"ring", "bracelet"}
    /\ Len(call.detection) > 1

HandExtraction(i) ==
    extractHandLandmarks(call.detection[i], call.jewelryType,
                         call.imgWidth, call.imgHeight)

YieldingHands ==
    { i \in 1..Len(call.detection) : HandExtraction(i).tag # "null" }

FirstYieldingHand ==
    CHOOSE i \in YieldingHands : \A j \in YieldingHands : i <= j

\* the detections that agree with the call's up to hand k
SameUpTo(k) ==
    { d \in HandDetections(call.jewelryType) :
        /\ Len(d) = Len(call.detection)
        /\ \A j \in 1..k : d[j] = call.detection[j] }

\* C30: with several detected hands, processImage returns the measurement of
\* the first hand in detection order whose extraction is non-null, whatever
\* the later hands are (none of them is examined), and it fails with 'No
\* landmarks detected' only when no hand yields a result.
C30_FirstHandWins ==
    SeveralHandsCall =>
        /\ YieldingHands # {} =>
              /\ ~result.hasError
              /\ result.landmarks = HandExtraction(FirstYieldingHand)
              /\ \A d \in SameUpTo(FirstYieldingHand) :
                    ProcessImageResult(call.jewelryType, TRUE, d,
                                       call.imgWidth, call.imgHeight) = result
        /\ YieldingHands = {} =>
              /\ result.hasError
              /\ result.error = NoLandmarksMessage(call.jewelryType)
        /\ result.error = NoLandmarksMessage(call.jewelryType) =>
              YieldingHands = {}

\* witness of C30: two hands that both yield, with different measurements;
\* the first one's is returned
C30_Witness ==
    /\ SeveralHandsCall
    /\ call.jewelryType = "ring"
    /\ YieldingHands = {1, 2}
    /\ HandExtraction(1) # HandExtraction(2)
    /\ result.landmarks = HandExtraction(1)
==========================================================================
